---- MODULE Spec2Model ----
(***************************************************************************)
(* A model of the diagnostic-driven remediation scripts of Coolhgg/Relife. *)
(*                                                                         *)
(* File contents are sequences of tokens.  A token is a piece of text that *)
(* the regular expressions of the scripts never split: the text of a file  *)
(* is the concatenation of its tokens, and every pattern below is the      *)
(* script's regular expression read over that concatenation.               *)
(***************************************************************************)
EXTENDS Integers, Sequences, FiniteSets, TLC

VARIABLES
    tool,       \* the rewrite script that is run over the file
    disk,       \* the content of the file on disk
    before,     \* the content of the file before the most recent pass
    pass,       \* the number of passes run so far
    fixes,      \* what the most recent pass reported (fix list length / change count)
    total,      \* the run's fix counter (total_fixes, total_changes)
    content,    \* fix_hooks_deps: the lines of the file when the run starts
    dep,        \* the candidate name given to is_safe_dependency
    verdict,    \* what is_safe_dependency returned for it
    hkDisk,     \* the lines of the file the hooks script edits, as on disk
    violations, \* the hooks violations ESLint reported for the file
    manual_review_items,    \* the manual review ledger
    fixes_applied,          \* what process_hooks_violations returned
    hkDone,     \* process_hooks_violations has run
    cfBlocks,   \* the conflicted file as it was made: its blocks
    cfDisk,     \* the content of the conflicted file on disk
    cfScript,   \* the conflict script that has been run over it
    cfOutcome,  \* what the script reported for the file
    resolved_count, \* the script's counter of resolved (cleaned) files
    batch,      \* the parsed diagnostics handed to a classifier
    buckets,    \* the buckets the classifier made of them
    clScript,   \* the classification script that has been run
    report,     \* the compiler report a parser is pointed at
    parsed,     \* what the parser returned for it
    psScript,   \* the parser (or parsing script) that has been run
    psOutcome,  \* how the run ended
    psOutput,   \* the classification output the run wrote
    bfFiles,    \* the files a batch script is run over
    bfLog,      \* what the script made of each file it reached
    bfScript,   \* the batch script that has been run
    bfStatus,   \* how the batch run ended
    bfCount,    \* the script's counter of changed files
    wrFile,     \* the content of the file when process_file starts
    wrDisk,     \* the content of the file on disk
    wrPc,       \* where process_file stands
    lgQueue,    \* the violations process_hooks_violations has still to handle
    lgIdx,      \* the missing dependency it analyzes next (0: no hooks run)
    lgFiles,    \* the files the try/catch cleaner has still to process
    cleaner,    \* the fields of the UselessTryCatchCleaner
    rpInput,    \* what a reporter is given: diagnostics as parsed, or linter results
    rpScript,   \* the reporter that has been run
    rpOutput,   \* the listings of the report, each in the order it is written
    top_errors, \* the list extract_top_errors returned
    t7Lines,    \* the lines of the file fix_ts7006_errors is called for
    t7Errors,   \* the lines of the compiler report
    t7Disk,     \* the lines of the file on disk
    changes_made,\* the fixes fix_ts7006_errors counted
    t7Done,     \* fix_ts7006.py has run
    tcContent,  \* the content of the file the try/catch cleaner is given
    tcDisk,     \* the content of the file on disk
    tcPatterns, \* the patterns detect_useless_patterns returned
    tcCleaner,  \* patterns_found and patterns_fixed of the cleaner
    tcDone      \* process_file has run

rwVars == <<tool, disk, before, pass, fixes, total>>
hkVars == <<content, dep, verdict, hkDisk, violations, manual_review_items,
            fixes_applied, hkDone>>
cfVars == <<cfBlocks, cfDisk, cfScript, cfOutcome, resolved_count>>
clVars == <<batch, buckets, clScript>>
psVars == <<report, parsed, psScript, psOutcome, psOutput>>
bfVars == <<bfFiles, bfLog, bfScript, bfStatus, bfCount>>
wrVars == <<wrFile, wrDisk, wrPc>>
lgVars == <<lgQueue, lgIdx, lgFiles, cleaner>>
rpVars == <<rpInput, rpScript, rpOutput>>
txVars == <<top_errors>>
t7Vars == <<t7Lines, t7Errors, t7Disk, changes_made, t7Done>>
tcVars == <<tcContent, tcDisk, tcPatterns, tcCleaner, tcDone>>
vars == <<rwVars, hkVars, cfVars, clVars, psVars, bfVars, wrVars, lgVars, rpVars, txVars, t7Vars, tcVars>>

\* A subsystem that takes no part in a run stays in its idle state.
RwIdle ==
    /\ tool = "none" /\ disk = <<>> /\ before = <<>>
    /\ pass = 0 /\ fixes = 0 /\ total = 0

HooksIdle ==
    /\ content = <<>> /\ dep = <<>> /\ verdict = "none" /\ hkDisk = <<>>
    /\ violations = <<>> /\ manual_review_items = <<>>
    /\ fixes_applied = 0 /\ hkDone = FALSE

ConflictsIdle ==
    /\ cfBlocks = <<>> /\ cfDisk = <<>> /\ cfScript = "none"
    /\ cfOutcome = "none" /\ resolved_count = 0

ClassifyIdle == batch = <<>> /\ buckets = <<>> /\ clScript = "none"

ParseIdle ==
    /\ report = <<>> /\ parsed = <<>> /\ psScript = "none"
    /\ psOutcome = "none" /\ psOutput = <<>>

BatchIdle ==
    bfFiles = <<>> /\ bfLog = <<>> /\ bfScript = "none" /\ bfStatus = "none" /\ bfCount = 0

WriteIdle ==
    wrFile = <<>> /\ wrDisk = <<>> /\ wrPc = "none"

LedgerIdle ==
    lgQueue = <<>> /\ lgIdx = 0 /\ lgFiles = <<>> /\ cleaner = <<>>

ReportIdle ==
    /\ rpInput = <<>> /\ rpScript = "none" /\ rpOutput = <<>>

TopIdle ==
    /\ top_errors = <<>>

Ts7006Idle ==
    /\ t7Lines = <<>> /\ t7Errors = <<>> /\ t7Disk = <<>> /\ changes_made = 0 /\ t7Done = FALSE

TryCatchIdle ==
    /\ tcContent = <<>> /\ tcDisk = <<>> /\ tcPatterns = <<>> /\ tcCleaner = <<>> /\ tcDone = FALSE

(***************************************************************************)
(* Bounds of the model.                                                    *)
(***************************************************************************)
MaxLen == 4
MaxPass == 2
MaxLines == 3
MaxParams == 4
MaxFileLines == 3
MaxHookLines == 2
MaxViolations == 2
MaxBlocks == 2
MaxBatch == 2

(***************************************************************************)
(* Helpers over token sequences.                                           *)
(***************************************************************************)
NL == "\n"

Min(S) == CHOOSE m \in S : \A n \in S : m <= n
Max(S) == CHOOSE m \in S : \A n \in S : m >= n

\* All sequences over alphabet A of length at most n.
SeqsUpTo(A, n) == UNION {[1..k -> A] : k \in 0..n}

ESLINT_A == "/project/workspace/Coolhgg/Relife/src/a.ts"
ESLINT_B == "/project/workspace/Coolhgg/Relife/src/b.ts"

\* The names of the model in the order of Python's string comparison.
Collation ==
    <<ESLINT_A, ESLINT_B, "TS2724", "TS7006", "implicit_any",
      "import_export_mismatches", "item", "no-undef", "prefer-const", "prev",
      "src/a.ts", "src/b.ts">>

LexRank(name) == CHOOSE i \in DOMAIN Collation : Collation[i] = name
LexLess(a, b) == LexRank(a) < LexRank(b)

\* The smallest index in lo..hi holding a token of T, or 0.
FirstIn(s, lo, hi, T) ==
    LET H == {k \in lo..hi : k >= 1 /\ k <= Len(s) /\ s[k] \in T}
    IN IF H = {} THEN 0 ELSE Min(H)

\* The last index of the physical line that position i lies on, the line
\* break excluded: '.' and [^\n] stop there.
LineLast(s, i) ==
    LET n == FirstIn(s, i, Len(s), {NL})
    IN IF n = 0 THEN Len(s) ELSE n - 1

\* The last index of the maximal run of tokens of T that starts at i (i - 1
\* when the run is empty): a greedy T* from i.
RunEnd(s, i, T) ==
    LET B == {k \in i..Len(s) : s[k] \notin T}
    IN IF B = {} THEN Len(s) ELSE Min(B) - 1

\* The same for a negated class [^...]*.
RunEndNot(s, i, T) ==
    LET B == {k \in i..Len(s) : s[k] \in T}
    IN IF B = {} THEN Len(s) ELSE Min(B) - 1

At(s, i) == IF i >= 1 /\ i <= Len(s) THEN s[i] ELSE "<eof>"

\* Character classes of the single-character tokens: \w and \s.
WordToks == {"a", "b"}
SpaceToks == {" ", NL}

Slice(s, lo, hi) == IF hi < lo THEN <<>> ELSE SubSeq(s, lo, hi)

RECURSIVE ReSubLiteral(_, _, _, _)
\* re.sub(re.escape(old), new, s) from position i, new holding no escapes.
ReSubLiteral(old, new, s, i) ==
    IF i > Len(s) THEN <<>>
    ELSE IF i + Len(old) - 1 <= Len(s) /\ SubSeq(s, i, i + Len(old) - 1) = old
    THEN new \o ReSubLiteral(old, new, s, i + Len(old))
    ELSE <<s[i]>> \o ReSubLiteral(old, new, s, i + 1)

RECURSIVE MapTok(_, _, _)
\* str.replace(from, to) over the tokens of s.
MapTok(s, from, to) ==
    IF s = <<>> THEN <<>>
    ELSE <<IF Head(s) = from THEN to ELSE Head(s)>> \o MapTok(Tail(s), from, to)

(***************************************************************************)
(* fix_import_exports.py                                                   *)
(***************************************************************************)
\* Rows of underscore_import_fixes: (r"import.*?{.*?_Name.*?}", replace).
underscore_import_fixes ==
    << [kind |-> "underscore", from |-> "_ReactElement ", to |-> "ReactElement "],
       [kind |-> "underscore", from |-> "_Badge ", to |-> "Badge "] >>

\* Rows of specific_fixes that are plain identifier substitutions.
specific_fixes ==
    << [kind |-> "word", from |-> "AlertTriangle ", to |-> "Alert "],
       [kind |-> "word", from |-> "Robot ", to |-> "Bot "] >>

\* Rows of unavailable_packages, each as the quoted module string.
unavailable_packages ==
    << [kind |-> "package", pkg |-> "'@capacitor/app'"],
       [kind |-> "package", pkg |-> "'idb'"] >>

\* import.*?{.*?_Name.*?} at position i: the index the match ends at, or 0.
MatchUnderscore(p, s, i) ==
    IF s[i] # "import " THEN 0
    ELSE LET L == LineLast(s, i + 1)
             j == FirstIn(s, i + 1, L, {"{ "})
             k == IF j = 0 THEN 0 ELSE FirstIn(s, j + 1, L, {p.from})
             l == IF k = 0 THEN 0 ELSE FirstIn(s, k + 1, L, {"} "})
         IN l

\* import.*?from ['"](pkg)['"];? at position i.
MatchPackage(p, s, i) ==
    IF s[i] # "import " THEN 0
    ELSE LET L == LineLast(s, i + 1)
             C == {j \in (i + 1)..(L - 1) : s[j] = "from " /\ s[j + 1] = p.pkg}
         IN IF C = {} THEN 0
            ELSE LET j == Min(C)
                 IN IF j + 2 <= Len(s) /\ s[j + 2] = ";" THEN j + 2 ELSE j + 1

(***************************************************************************)
(* fix-remaining-syntax.py, fix_object_literal_issues                      *)
(***************************************************************************)
\* (\w+): ([^,\n}]+)\n\s*(\w+):  The groups' bounds at position i, or none.
ObjCommaGroups(s, i) ==
    LET a == RunEnd(s, i, WordToks)
        b == RunEndNot(s, a + 3, {",", NL, "}"})
        c == RunEnd(s, b + 2, SpaceToks)
        d == RunEnd(s, c + 1, WordToks)
    IN IF /\ a >= i /\ At(s, a + 1) = ":" /\ At(s, a + 2) = " "
          /\ b >= a + 3 /\ At(s, b + 1) = NL
          /\ d >= c + 1 /\ At(s, d + 1) = ":"
       THEN [ok |-> TRUE, a |-> a, b |-> b, c |-> c, d |-> d]
       ELSE [ok |-> FALSE, a |-> 0, b |-> 0, c |-> 0, d |-> 0]

\* const \{ ([^}]*)\s*$ with re.MULTILINE: the index the match ends at, or 0.
\* [^}]* is greedy and runs over line breaks; '$' holds at the end of the
\* text and before a line break.
MatchDestructure(s, i) ==
    IF s[i] # "const { " THEN 0
    ELSE LET r == RunEndNot(s, i + 1, {"}"})
             N == {k \in (i + 1)..r : s[k] = NL}
         IN IF r = Len(s) THEN r
            ELSE IF N = {} THEN 0 ELSE Max(N) - 1

object_literal_fixes ==
    << [kind |-> "objcomma"], [kind |-> "destructure"] >>

(***************************************************************************)
(* reduce-any-types.py                                                     *)
(***************************************************************************)
\* Tokens of a parameter: identifier, colon and type.
PA == "a: any"
PU == "a: unknown"
PL == "a: any[]"
PM == "a: MockDataRecord[]"

\* Tokens whose text begins with a word character (for \b).
WordStartToks ==
    WordToks \cup {PA, PU, PL, PM, "user: null as any", "user: null", "x as any",
                   "function", "MockDataStore", "Record<string, any[]>"}

\* TYPE_REPLACEMENTS, in table order.  The rows left out are the ones keyed to
\* one named method (track:, createAlarm:, getBattles:, ...), whose trigger
\* text is outside the token alphabet: on these files they match nothing.
\* imports: the replacement names MockDataStore or MockDataRecord.
TYPE_REPLACEMENTS ==
    << [kind |-> "word", from |-> "Record<string, any[]>", to |-> "MockDataStore",
        imports |-> TRUE],
       [kind |-> "word", from |-> PL, to |-> PM, imports |-> TRUE],
       [kind |-> "word", from |-> "user: null as any", to |-> "user: null",
        imports |-> FALSE],
       [kind |-> "param", open |-> "(", close |-> ")", imports |-> FALSE],
       [kind |-> "param", open |-> "(", close |-> ",", imports |-> FALSE],
       [kind |-> "param", open |-> ",", close |-> ")", imports |-> FALSE],
       [kind |-> "param", open |-> ",", close |-> ",", imports |-> FALSE] >>

additional_replacements ==
    << [kind |-> "arrowParam", imports |-> FALSE],
       [kind |-> "functionParam", imports |-> FALSE],
       [kind |-> "anyArray", imports |-> FALSE],
       [kind |-> "word", from |-> ": Record<string, any>",
        to |-> ": Record<string, unknown>", imports |-> FALSE],
       [kind |-> "asAny", imports |-> FALSE] >>

\* \s*([a-zA-Z_][a-zA-Z0-9_]*)\s*:\s*any from position j: where the identifier
\* starts and the index of the parameter token, or 0.
ParamAt(s, j) ==
    LET w == RunEnd(s, j, SpaceToks) + 1
        k == RunEnd(s, w, WordToks) + 1
    IN IF At(s, k) = PA THEN [id |-> w, k |-> k] ELSE [id |-> 0, k |-> 0]

\* open \s*(id)\s*:\s*any close, with \s* before a closing parenthesis.
MatchParam(open, close, s, i) ==
    IF s[i] # open THEN 0
    ELSE LET k == ParamAt(s, i + 1).k
             c == IF close = ")" THEN RunEnd(s, k + 1, SpaceToks) + 1 ELSE k + 1
         IN IF k # 0 /\ At(s, c) = close THEN c ELSE 0

\* \(\s*(id)\s*:\s*any\s*\)\s*=>
MatchArrowParam(s, i) ==
    LET c == MatchParam("(", ")", s, i)
        a == RunEnd(s, c + 1, SpaceToks) + 1
    IN IF c # 0 /\ At(s, a) = "=>" THEN a ELSE 0

\* function\s*\(\s*(id)\s*:\s*any\s*\)
MatchFunctionParam(s, i) ==
    IF s[i] # "function" THEN 0
    ELSE LET o == RunEnd(s, i + 1, SpaceToks) + 1
         IN IF At(s, o) = "(" THEN MatchParam("(", ")", s, o) ELSE 0

(***************************************************************************)
(* fix_syntax_errors.py, fix_specific_syntax_errors                        *)
(***************************************************************************)
HEADM == "<<<<<<< HEAD"
SEP == "======="
MAINM == ">>>>>>> origin/main"
AUTOC == "// auto: implicit any"
MAPT == "x?.map((item: any"
TODO == "{ /* TODO: implement */ }"

\* Tokens whose text begins with '{'.
StartsBrace == {"{", "{ ", TODO}

\* Tokens whose text ends with 'any', and with ': any' after a word.
EndsAny == {PA, MAPT, "x as any", AUTOC}
EndsColonAny == {PA, MAPT}

\* \)\s*=>\s*;
MatchArrowSemi(s, i) ==
    IF s[i] # ")" THEN 0
    ELSE LET a == RunEnd(s, i + 1, SpaceToks) + 1
             b == RunEnd(s, a + 1, SpaceToks) + 1
         IN IF At(s, a) = "=>" /\ At(s, b) = ";" THEN b ELSE 0

\* T \s*//\s*auto:\s*implicit\s*any\s*\) after a token of T at position i:
\* the index of the closing parenthesis, or 0.
MatchAutoComment(T, s, i) ==
    IF s[i] \notin T THEN 0
    ELSE LET a == RunEnd(s, i + 1, SpaceToks) + 1
             b == RunEnd(s, a + 1, SpaceToks) + 1
         IN IF At(s, a) = AUTOC /\ At(s, b) = ")" THEN b ELSE 0

\* !\s*//\s*auto:[^)]*\s*  ([^)]* runs over line breaks).
MatchBangComment(s, i) ==
    IF s[i] # "!" THEN 0
    ELSE LET a == RunEnd(s, i + 1, SpaceToks) + 1
         IN IF At(s, a) = AUTOC THEN RunEndNot(s, a + 1, {")"}) ELSE 0

\* =>\s*\n\s*([^{]) from the arrow at position a: the index the match ends
\* at, or 0.  The second \s* gives back its last blank when what follows the
\* blanks is '{' or the end of the text.
ArrowBreakEnd(s, a) ==
    LET w == RunEnd(s, a + 1, SpaceToks)
        N == {k \in (a + 1)..w : s[k] = NL}
    IN IF At(s, a) # "=>" \/ N = {} THEN 0
       ELSE IF w < Len(s) /\ s[w + 1] \notin StartsBrace THEN w + 1
       ELSE IF w > Min(N) THEN w
       ELSE 0

\* (\w+:\s*any)\s*//[^\n]*\)\s*=>\s*\n\s*([^{]): the closing parenthesis the
\* greedy [^\n]* settles on, or 0.
LineArrowParen(s, i) ==
    IF s[i] \notin EndsColonAny THEN 0
    ELSE LET c == RunEnd(s, i + 1, SpaceToks) + 1
             Q == {q \in (c + 1)..LineLast(s, c) :
                     s[q] = ")" /\ ArrowBreakEnd(s, RunEnd(s, q + 1, SpaceToks) + 1) # 0}
         IN IF At(s, c) = AUTOC /\ Q # {} THEN Max(Q) ELSE 0

\* (\w+\?\s*\.map\(\([^)]+\)\s*=>\s*)\n\s*(\{): the arrow, the line break
\* that is dropped and the brace, or none.
MapBreak(s, i) ==
    LET q == RunEndNot(s, i + 1, {")"}) + 1
        a == RunEnd(s, q + 1, SpaceToks) + 1
        w == RunEnd(s, a + 1, SpaceToks)
        N == {k \in (a + 1)..w : s[k] = NL}
    IN IF s[i] = MAPT /\ At(s, q) = ")" /\ At(s, a) = "=>" /\ N # {}
          /\ At(s, w + 1) \in StartsBrace
       THEN [ok |-> TRUE, n |-> Max(N), e |-> w + 1]
       ELSE [ok |-> FALSE, n |-> 0, e |-> 0]

(***************************************************************************)
(* fix-state-setters.py                                                    *)
(***************************************************************************)
OPENNL == "((prev: any\n) => "
OPEN == "((prev: any) => "
SetterNames == {"setCount", "setFoo", "setOpen", "setData"}

\* (set\w+)\(\(prev: any\) => ([^}]+)\) at position i, for the opening token
\* open: the index of the closing parenthesis, or 0.  [^}]+ is greedy, so
\* the body runs to the last ')' before the next '}'.
MatchSetter(open, s, i) ==
    IF s[i] \notin SetterNames \/ At(s, i + 1) # open THEN 0
    ELSE LET r == RunEndNot(s, i + 2, {"}"})
             C == {k \in (i + 3)..r : s[k] = ")"}
         IN IF C = {} THEN 0 ELSE Max(C)

RECURSIVE FindSetters(_, _, _)
\* pattern.findall(content): the (setter_name, setter_body) pairs.
FindSetters(open, s, i) ==
    IF i > Len(s) THEN <<>>
    ELSE LET e == MatchSetter(open, s, i)
         IN IF e = 0 THEN FindSetters(open, s, i + 1)
            ELSE <<[name |-> s[i], body |-> SubSeq(s, i + 2, e - 1)]>>
                   \o FindSetters(open, s, e + 1)

Has(body, T) == \E k \in 1..Len(body) : body[k] \in T

\* infer_setter_type(setter_name, content_context)
infer_setter_type(name, body) ==
    IF name = "setCount" THEN "number"
    ELSE IF name = "setOpen" THEN "boolean"
    ELSE IF name = "setData" THEN "any[]"
    ELSE IF Has(body, {"prev + 1"}) THEN "number"
    ELSE IF Has(body, {"!prev"}) THEN "boolean"
    ELSE IF Has(body, {"'s'"}) THEN "string"
    ELSE IF Has(body, {"((prev: any[]) => "}) THEN "any[]"
    ELSE "object"

\* The opening text of the replacement: an object setter is kept as any.
TypedOpen(type) ==
    CASE type = "number" -> "((prev: number) => "
      [] type = "boolean" -> "((prev: boolean) => "
      [] type = "string" -> "((prev: string) => "
      [] type = "any[]" -> "((prev: any[]) => "
      [] type = "object" -> OPEN

RECURSIVE ReplaceSetters(_, _)
\* The second loop: re.sub of each match's own text by its typed form.
ReplaceSetters(matches, s) ==
    IF matches = <<>> THEN s
    ELSE LET m == Head(matches)
             old == <<m.name, OPEN>> \o m.body \o <<")">>
             new == <<m.name, TypedOpen(infer_setter_type(m.name, m.body))>>
                      \o m.body \o <<")">>
         IN ReplaceSetters(Tail(matches), ReSubLiteral(old, new, s, 1))

\* The body of the loop of fix_state_setters for a file holding s.  The
\* first loop's old_pattern leaves its parentheses unescaped: it is the
\* pattern of the text 'setX' 'prev: any\n' ' => body', which no file over
\* the token alphabet holds, so that loop substitutes nothing.
fix_state_setters(s) ==
    LET matches == FindSetters(OPENNL, s, 1)
        matches2 == FindSetters(OPEN, s, 1)
    IN [content |-> ReplaceSetters(matches2, s),
        fixes |-> Len(matches) + Len(matches2)]

SetterLines ==
    {<<n, o, b, ")">> : n \in {"setCount", "setFoo"}, o \in {OPEN, OPENNL},
                        b \in {"prev", "prev + 1"}} \cup {<<"}">>}

\* A literal pattern: the tokens of p.lit.
MatchLiteral(p, s, i) ==
    IF i + Len(p.lit) - 1 <= Len(s) /\ SubSeq(s, i, i + Len(p.lit) - 1) = p.lit
    THEN i + Len(p.lit) - 1 ELSE 0

Match(p, s, i) ==
    CASE p.kind = "underscore" -> MatchUnderscore(p, s, i)
      [] p.kind = "word" -> IF s[i] = p.from THEN i ELSE 0
      [] p.kind = "package" -> MatchPackage(p, s, i)
      [] p.kind = "objcomma" ->
            LET g == ObjCommaGroups(s, i) IN IF g.ok THEN g.d + 1 ELSE 0
      [] p.kind = "destructure" -> MatchDestructure(s, i)
      [] p.kind = "param" -> MatchParam(p.open, p.close, s, i)
      [] p.kind = "literal" -> MatchLiteral(p, s, i)
      \* >>>>>>> .*\n
      [] p.kind = "mainMarker" ->
            IF s[i] = MAINM /\ LineLast(s, i) < Len(s) THEN LineLast(s, i) + 1 ELSE 0
      [] p.kind = "arrowSemi" -> MatchArrowSemi(s, i)
      [] p.kind = "autoSearch" -> MatchAutoComment(EndsAny, s, i)
      [] p.kind = "autoComment" -> MatchAutoComment(EndsColonAny, s, i)
      [] p.kind = "bangSearch" ->
            IF s[i] = "!" /\ At(s, RunEnd(s, i + 1, SpaceToks) + 1) = AUTOC
            THEN RunEnd(s, i + 1, SpaceToks) + 1 ELSE 0
      [] p.kind = "bangComment" -> MatchBangComment(s, i)
      [] p.kind = "lineArrow" ->
            LET q == LineArrowParen(s, i)
            IN IF q = 0 THEN 0 ELSE ArrowBreakEnd(s, RunEnd(s, q + 1, SpaceToks) + 1)
      [] p.kind = "mapBreak" -> MapBreak(s, i).e
      \* '.map((item: any' in fixed_content
      [] p.kind = "hasMap" -> IF s[i] = MAPT THEN i ELSE 0
      [] p.kind = "arrowParam" -> MatchArrowParam(s, i)
      [] p.kind = "functionParam" -> MatchFunctionParam(s, i)
      \* :\s*any\[\](?!\s*=)
      [] p.kind = "anyArray" ->
            IF s[i] = PL /\ At(s, RunEnd(s, i + 1, SpaceToks) + 1) # "=" THEN i ELSE 0
      \* \s+as\s+any\b
      [] p.kind = "asAny" ->
            IF s[i] \in {"x as any", "user: null as any"} /\ At(s, i + 1) \notin WordStartToks
            THEN i ELSE 0

PackageNote == " // Package not available in current setup"

Repl(p, s, i, e) ==
    CASE p.kind = "underscore" -> MapTok(SubSeq(s, i, e), p.from, p.to)
      [] p.kind = "word" -> <<p.to>>
      [] p.kind = "package" ->
            <<"// ", "import ", "... ", "from ", p.pkg, ";", PackageNote>>
      \* r'\1: \2,\n  \3:'
      [] p.kind = "objcomma" ->
            LET g == ObjCommaGroups(s, i)
            IN Slice(s, i, g.a) \o <<":", " ">> \o Slice(s, g.a + 3, g.b)
                 \o <<",", NL, " ", " ">> \o Slice(s, g.c + 1, g.d) \o <<":">>
      \* r'const { \1 }'
      [] p.kind = "destructure" ->
            <<"const { ">> \o Slice(s, i + 1, e) \o <<" ", "}">>
      \* r'(\1: unknown)', r'(\1: unknown,', r', \1: unknown)', r', \1: unknown,'
      [] p.kind = "param" ->
            LET a == ParamAt(s, i + 1)
            IN (IF p.open = "," THEN <<",", " ">> ELSE <<"(">>)
                 \o Slice(s, a.id, a.k - 1) \o <<PU, p.close>>
      \* r'(\1: unknown) =>'
      [] p.kind = "arrowParam" ->
            LET a == ParamAt(s, i + 1)
            IN <<"(">> \o Slice(s, a.id, a.k - 1) \o <<PU, ")", " ", "=>">>
      \* r'function(\1: unknown)'
      [] p.kind = "functionParam" ->
            LET o == RunEnd(s, i + 1, SpaceToks) + 1
                a == ParamAt(s, o + 1)
            IN <<"function", "(">> \o Slice(s, a.id, a.k - 1) \o <<PU, ")">>
      [] p.kind = "literal" -> p.to
      [] p.kind = "mainMarker" -> <<>>
      \* ') => { /* TODO: implement */ }'
      [] p.kind = "arrowSemi" -> <<")", " ", "=>", " ", TODO>>
      \* r'\1\2'
      [] p.kind = "autoComment" ->
            <<s[i]>> \o Slice(s, RunEnd(s, i + 1, SpaceToks) + 2, e)
      [] p.kind = "bangComment" -> <<"!">>
      \* r'\1) => \2'
      [] p.kind = "lineArrow" -> <<s[i], ")", " ", "=>", " ", s[e]>>
      \* r'\1\2'
      [] p.kind = "mapBreak" ->
            Slice(s, i, MapBreak(s, i).n - 1) \o <<s[e]>>
      [] p.kind = "anyArray" -> <<"a: unknown[]">>
      [] p.kind = "asAny" ->
            <<IF s[i] = "x as any" THEN "x as unknown" ELSE "user: null as unknown">>

RECURSIVE ReSubFrom(_, _, _)
\* One step of re.sub at position i, where the match attempt ended at e.
ReSubAt(p, s, i, e) ==
    IF e = 0 THEN <<s[i]>> \o ReSubFrom(p, s, i + 1)
    ELSE Repl(p, s, i, e) \o ReSubFrom(p, s, e + 1)

\* re.sub(p, repl, s): leftmost non-overlapping matches, scanned from i.
ReSubFrom(p, s, i) ==
    IF i > Len(s) THEN <<>> ELSE ReSubAt(p, s, i, Match(p, s, i))

ReSub(p, s) == ReSubFrom(p, s, 1)

RECURSIVE ReCountFrom(_, _, _)
\* One step of re.findall at position i, where the match attempt ended at e.
ReCountAt(p, s, i, e) ==
    IF e = 0 THEN ReCountFrom(p, s, i + 1) ELSE 1 + ReCountFrom(p, s, e + 1)

\* len(re.findall(p, s)).
ReCountFrom(p, s, i) ==
    IF i > Len(s) THEN 0 ELSE ReCountAt(p, s, i, Match(p, s, i))

ReCount(p, s) == ReCountFrom(p, s, 1)

\* re.search(p, s) is not None.
ReSearch(p, s) == \E i \in 1..Len(s) : Match(p, s, i) # 0

RECURSIVE SubAll(_, _)
\* for pattern, replacement in rules: content = re.sub(pattern, replacement, content)
SubAll(rules, s) ==
    IF rules = <<>> THEN s
    ELSE SubAll(Tail(rules), ReSub(Head(rules), s))

\* The content fix_import_exports_in_file computes for a file holding s.
fix_import_exports_in_file(s) ==
    SubAll(unavailable_packages, SubAll(specific_fixes, SubAll(underscore_import_fixes, s)))

\* The content fix_object_literal_issues computes for a file holding s.
fix_object_literal_issues(s) == SubAll(object_literal_fixes, s)

\* The lines the object-literal inputs are made of.
ObjLines ==
    { <<"a", ":", " ", "b">>,           \* key: value
      <<"a", ":", " ", "b", ",">>,      \* key: value,
      <<"}">>,
      <<"const { ", "a">>,              \* an unclosed destructuring
      <<"const { ", "a", " ", "}">> }

RECURSIVE JoinLines(_)
\* '\n'.join(ls)
JoinLines(ls) ==
    IF ls = <<>> THEN <<>>
    ELSE IF Len(ls) = 1 THEN ls[1]
    ELSE ls[1] \o <<NL>> \o JoinLines(Tail(ls))

\* Files of at most n lines of L, with or without a final line break.
FilesOf(L, n) ==
    LET J == {JoinLines(ls) : ls \in SeqsUpTo(L, n) \ {<<>>}}
    IN J \cup {f \o <<NL>> : f \in J}

\* The fixes of fix_specific_syntax_errors in the order they are tried: the
\* pattern that is searched and the pattern that is substituted.  Left out
\* are two rows of patterns_to_fix (prev + 1, modulo) and the fixes keyed to
\* four named files, whose trigger text is outside the token alphabet.
syntax_fixes ==
    << [search |-> [kind |-> "literal", lit |-> <<HEADM, NL>>, to |-> <<>>],
        sub |-> [kind |-> "literal", lit |-> <<HEADM, NL>>, to |-> <<>>]],
       [search |-> [kind |-> "mainMarker"], sub |-> [kind |-> "mainMarker"]],
       [search |-> [kind |-> "literal", lit |-> <<SEP, NL>>, to |-> <<>>],
        sub |-> [kind |-> "literal", lit |-> <<SEP, NL>>, to |-> <<>>]],
       [search |-> [kind |-> "arrowSemi"], sub |-> [kind |-> "arrowSemi"]],
       [search |-> [kind |-> "autoSearch"], sub |-> [kind |-> "autoComment"]],
       [search |-> [kind |-> "bangSearch"], sub |-> [kind |-> "bangComment"]],
       [search |-> [kind |-> "lineArrow"], sub |-> [kind |-> "lineArrow"]],
       [search |-> [kind |-> "hasMap"], sub |-> [kind |-> "mapBreak"]] >>

RECURSIVE ApplyFixes(_, _)
\* if re.search(search, fixed_content): fixed_content = re.sub(sub, ...);
\* fixes.append(...)
ApplyFixes(rules, st) ==
    IF rules = <<>> THEN st
    ELSE ApplyFixes(Tail(rules),
            IF ReSearch(Head(rules).search, st.content)
            THEN [content |-> ReSub(Head(rules).sub, st.content),
                  fixes |-> st.fixes + 1]
            ELSE st)

\* fix_specific_syntax_errors(content, file_path): the fixed content and the
\* length of the list of fixes.
fix_specific_syntax_errors(s) == ApplyFixes(syntax_fixes, [content |-> s, fixes |-> 0])

SyntaxLines ==
    { <<HEADM>>, <<SEP>>, <<MAINM>>, <<"x">>, <<" ", "{">>,
      <<")", " ", "=>", " ", ";">>,
      <<PA, " ", AUTOC, ")">>,
      <<"x as any", " ", AUTOC, ")">>,
      <<"!", " ", AUTOC, "x", ")">>,
      <<PA, " ", AUTOC, "x", ")", " ", "=>">>,
      <<MAPT, ")", " ", "=>">>,
      <<MAPT, ")", " ", "=>", " ", "{">> }

RECURSIVE SplitFrom(_, _, _)
\* content.split('\n') from position i, cur being the line read so far.
SplitFrom(s, i, cur) ==
    IF i > Len(s) THEN <<cur>>
    ELSE IF s[i] = NL THEN <<cur>> \o SplitFrom(s, i + 1, <<>>)
    ELSE SplitFrom(s, i + 1, Append(cur, s[i]))

SplitLines(s) == SplitFrom(s, 1, <<>>)

\* line.strip()
Strip(l) ==
    LET K == {k \in 1..Len(l) : l[k] \notin SpaceToks}
    IN IF K = {} THEN <<>> ELSE SubSeq(l, Min(K), Max(K))

\* The import add_imports_to_file writes for the MockData names.
CommonTypesImport ==
    "import {\n  MockDataRecord, MockDataStore\n} from '../../types/common-types';"

RECURSIVE InsertPos(_, _, _, _)
\* The loop that skips the initial comment block: the number of lines the
\* import statement is inserted after.
InsertPos(lines, i, in_comment, pos) ==
    IF i > Len(lines) THEN pos
    ELSE LET stripped == Strip(lines[i])
         IN IF stripped # <<>> /\ Head(stripped) = "/**"
            THEN InsertPos(lines, i + 1, TRUE, pos)
            ELSE IF stripped # <<>> /\ stripped[Len(stripped)] = "*/" /\ in_comment
            THEN i
            ELSE IF stripped # <<>> /\ Head(stripped) = "// c" /\ ~in_comment
            THEN InsertPos(lines, i + 1, in_comment, i)
            ELSE IF stripped # <<>> /\ ~in_comment
            THEN pos
            ELSE InsertPos(lines, i + 1, in_comment, pos)

\* The content add_imports_to_file writes for a file holding s.
add_imports_to_file(s) ==
    IF \E k \in 1..Len(s) : s[k] = CommonTypesImport
    THEN s      \* the existing import already lists the names: rewritten as it is
    ELSE LET lines == SplitLines(s)
             pos == InsertPos(lines, 1, FALSE, 0)
         IN JoinLines(Slice(lines, 1, pos) \o <<(<<CommonTypesImport, NL>>)>>
                        \o Slice(lines, pos + 1, Len(lines)))

RECURSIVE CountAll(_, _)
\* The first loop of process_file over a rule table: the content after the
\* rules that match, the matches counted, and whether an import is needed.
\* matches = re.findall(pattern, content); if matches: content = re.sub(...);
\* changes_made += len(matches); imports_needed is set by the rules that
\* introduce an imported type.
CountRule(r, st, n) ==
    IF n = 0 THEN st
    ELSE [content |-> ReSub(r, st.content),
          changes |-> st.changes + n,
          imports |-> st.imports \/ r.imports]

CountAll(rules, st) ==
    IF rules = <<>> THEN st
    ELSE CountAll(Tail(rules),
                  CountRule(Head(rules), st, ReCount(Head(rules), st.content)))

\* process_file of reduce-any-types.py on a file holding s: the content
\* written by add_imports_to_file (the file as it was, when that is not
\* called), the content left on disk and the changes returned.
ProcessCounted(s, st, withImports) ==
    IF st.content # s
    THEN [imported |-> IF st.imports THEN withImports ELSE s,
          content |-> SubAll(additional_replacements,
                        SubAll(TYPE_REPLACEMENTS,
                          IF st.imports THEN withImports ELSE st.content)),
          changes |-> st.changes]
    ELSE [imported |-> s, content |-> s, changes |-> 0]

process_file(s) ==
    ProcessCounted(s,
        CountAll(additional_replacements,
            CountAll(TYPE_REPLACEMENTS,
                [content |-> s, changes |-> 0, imports |-> FALSE])),
        add_imports_to_file(s))

\* The lines the any-type inputs are made of: a call with n parameters.
RECURSIVE ParamLists(_)
ParamLists(n) ==
    IF n = 0 THEN {}
    ELSE IF n = 1 THEN {<<PA>>, <<PU>>}
    ELSE ParamLists(n - 1)
           \cup {l \o <<",", q>> : l \in {m \in ParamLists(n - 1) : Len(m) = 2 * n - 3},
                                   q \in {PA, PU}}

AnyPrefixes ==
    { <<>>, <<PL, NL>>, <<"// c", NL>>, <<"// c", NL, PL, NL>>,
      <<"/**", "*/", NL, PL, NL>>, <<CommonTypesImport, NL, PL, NL>>,
      <<"user: null as any", NL>> }

AnySuffixes == { <<>>, <<" ", "=>">>, <<" ", "x as any">> }

AnyInputs ==
    {pre \o <<"f", "(">> \o l \o <<")">> \o suf :
        pre \in AnyPrefixes, l \in ParamLists(MaxParams), suf \in AnySuffixes}

ImportTokens == {"import ", "{ ", "} ", "_Badge ", "from ", "'idb'", ";", NL, "Robot "}

(***************************************************************************)
(* The rewrite run: a script is run over the file, pass after pass.        *)
(***************************************************************************)
Tools == {"imports", "objlit", "anytypes", "syntax", "setters"}

Inputs(t) ==
    CASE t = "imports" -> SeqsUpTo(ImportTokens, MaxLen)
      [] t = "objlit" -> FilesOf(ObjLines, MaxLines)
      [] t = "anytypes" -> AnyInputs
      [] t = "syntax" -> FilesOf(SyntaxLines, MaxLines)
      [] t = "setters" -> FilesOf(SetterLines, MaxLines)

\* What one pass of script t computes for content s: the new content and the
\* number of fixes it reports.
PassResult(t, s) ==
    CASE t = "imports" ->
        LET c == fix_import_exports_in_file(s)
        IN [content |-> c, fixes |-> IF c # s THEN 1 ELSE 0]
      [] t = "objlit" ->
        LET c == fix_object_literal_issues(s)
        IN [content |-> c, fixes |-> IF c # s THEN 1 ELSE 0]
      [] t = "anytypes" ->
        LET r == process_file(s)
        IN [content |-> r.content, fixes |-> r.changes]
      [] t = "syntax" -> fix_specific_syntax_errors(s)
      [] t = "setters" -> fix_state_setters(s)

RwInit ==
    /\ tool \in Tools
    /\ disk \in Inputs(tool)
    /\ before = disk
    /\ pass = 0
    /\ fixes = 0
    /\ total = 0
    /\ HooksIdle /\ ConflictsIdle /\ ClassifyIdle /\ ParseIdle /\ BatchIdle /\ WriteIdle /\ LedgerIdle /\ ReportIdle /\ TopIdle /\ Ts7006Idle /\ TryCatchIdle

RunPass ==
    /\ pass < MaxPass
    /\ \E r \in {PassResult(tool, disk)} :
          /\ disk' = r.content
          /\ fixes' = r.fixes
          /\ total' = total + r.fixes
    /\ before' = disk
    /\ pass' = pass + 1
    /\ UNCHANGED <<tcVars, t7Vars, txVars, rpVars, lgVars, psVars, wrVars, bfVars, tool, hkVars, cfVars, clVars>>

RwNext == RunPass

SpecRewrite == RwInit /\ [][RwNext]_vars

\* C1: rewriting is idempotent, f(f(t)) = f(t): for fix_import_exports_in_file,
\* fix_object_literal_issues and process_file of reduce-any-types, the second
\* pass over a file leaves it as the first pass wrote it.
C1_Idempotent ==
    (tool \in {"imports", "objlit", "anytypes"} /\ pass = 2) => disk = before

\* C2: a second pass that does not modify the file records no fix: for
\* fix_specific_syntax_errors, fix_state_setters and process_file, the fix
\* list is empty and the counter is not incremented.
C2_SecondPassRecordsNothing ==
    (tool \in {"syntax", "setters", "anytypes"} /\ pass = 2 /\ disk = before)
        => fixes = 0
(***************************************************************************)
(* fix_hooks_deps.py.  A name is the sequence of the pieces it is spelled  *)
(* with; a file is a sequence of lines, each a record of the shape of the  *)
(* line (k) and the name it mentions (n):                                  *)
(*   import         import { n } from 'm';                                 *)
(*   commentImport  // import n from 'old';                                *)
(*   const          const n = 1;            (at column 0)                  *)
(*   indentConst      const n = 1;          (indented)                     *)
(*   function       function f() {                                         *)
(*   exportFunction export function f() {                                  *)
(*   close          }                                                      *)
(*   hook           useEffect(() => { ... }, []);                          *)
(*   disable        // eslint-disable-next-line react-hooks/exhaustive-deps*)
(*                  -- auto: manual review required; refs: n               *)
(*   other          any other line                                         *)
(***************************************************************************)
LookBack == 20

FOO == <<"foo">>
SETCOUNT == <<"set", "Count">>
UpperPieces == {"Count", "Setter", "Handler", "Callback", "Id"}
DepNames ==
    {FOO, SETCOUNT, <<"props", ".", "id">>, <<"click", "Handler">>,
     <<"value", "Setter">>, <<"done", "Callback">>, <<"set", "tings">>}

Line(k, n) == [k |-> k, n |-> n]

\* unsafe_patterns: ^set[A-Z], \., Setter$, Handler$, Callback$
MatchesUnsafePattern(d) ==
    \/ Len(d) >= 2 /\ d[1] = "set" /\ d[2] \in UpperPieces
    \/ \E i \in 1..Len(d) : d[i] = "."
    \/ d[Len(d)] \in {"Setter", "Handler", "Callback"}

\* import_pattern = import.*\bdep\b.*from, searched in the whole content: a
\* line that holds the word import, then the name as a whole word, then from.
MatchesImportPattern(d, file_content) ==
    \E i \in 1..Len(file_content) :
        file_content[i].k \in {"import", "commentImport"} /\ file_content[i].n = d

\* const_pattern = ^(const|let|var)\s+dep\s*= on one line.
MatchesConstPattern(d, line) == line.k = "const" /\ line.n = d

\* ^\s*(function|const \w+\s*=|class \w+) on one line.
LooksLikeFunction(line) == line.k \in {"function", "const", "indentConst"}

\* The scan of the lines (0-based i in the code, 1-based here): a matching
\* declaration with no function-like line among the LookBack lines above it.
DeclaredOutsideFunction(d, lines) ==
    \E i \in 1..Len(lines) :
        /\ MatchesConstPattern(d, lines[i])
        /\ \A j \in Max({1, i - LookBack})..(i - 1) : ~LooksLikeFunction(lines[j])

\* The variant of is_safe_dependency that looks for an import or a
\* declaration before it looks at the name.
is_safe_dependency_declared_first(d, file_content) ==
    IF MatchesImportPattern(d, file_content) THEN TRUE
    ELSE IF DeclaredOutsideFunction(d, file_content) THEN TRUE
    ELSE FALSE

is_safe_dependency(d, file_content) ==
    IF MatchesUnsafePattern(d) THEN FALSE
    ELSE IF MatchesImportPattern(d, file_content) THEN TRUE
    ELSE IF DeclaredOutsideFunction(d, file_content) THEN TRUE
    ELSE FALSE

\* The files the analyzer is given: up to MaxFileLines items, an item being
\* a line or a gap of LookBack other lines.
FileItems ==
    {Line(k, n) : k \in {"import", "const"}, n \in {FOO, SETCOUNT}}
      \cup {Line("commentImport", FOO), Line("indentConst", FOO)}
      \cup {Line(k, <<>>) : k \in {"function", "exportFunction", "close", "other", "gap"}}

RECURSIVE Expand(_)
Expand(items) ==
    IF items = <<>> THEN <<>>
    ELSE (IF Head(items).k = "gap" THEN [j \in 1..LookBack |-> Line("other", <<>>)]
          ELSE <<Head(items)>>) \o Expand(Tail(items))

SaInit ==
    /\ RwIdle /\ ConflictsIdle /\ ClassifyIdle /\ ParseIdle /\ BatchIdle /\ WriteIdle /\ LedgerIdle /\ ReportIdle /\ TopIdle /\ Ts7006Idle /\ TryCatchIdle
    /\ content \in {Expand(f) : f \in SeqsUpTo(FileItems, MaxFileLines)}
    /\ dep \in DepNames
    /\ verdict = "none"
    /\ hkDisk = content
    /\ violations = <<>> /\ manual_review_items = <<>>
    /\ fixes_applied = 0 /\ hkDone = FALSE

\* A call of is_safe_dependency(dep, file_content).
Analyze ==
    /\ verdict = "none"
    /\ verdict' = IF is_safe_dependency(dep, content) THEN "SAFE" ELSE "UNSAFE"
    /\ UNCHANGED <<tcVars, t7Vars, txVars, rpVars, lgVars, psVars, wrVars, bfVars, rwVars, cfVars, clVars, content, dep, hkDisk, violations,
                   manual_review_items, fixes_applied, hkDone>>

SaNext == Analyze

SpecSafety == SaInit /\ [][SaNext]_vars

\* What the file really declares, by the structure of its lines: the name is
\* the target of an import statement,
ImportTarget(d, f) == \E i \in 1..Len(f) : f[i].k = "import" /\ f[i].n = d

RECURSIVE DepthAt(_, _)
\* the number of function bodies open at line i,
DepthAt(f, i) ==
    IF i = 1 THEN 0
    ELSE IF f[i - 1].k \in {"function", "exportFunction"} THEN DepthAt(f, i - 1) + 1
    ELSE IF f[i - 1].k = "close" THEN Max({0, DepthAt(f, i - 1) - 1})
    ELSE DepthAt(f, i - 1)

\* and the name is bound by a declaration outside every function body.
ModuleLevelConst(d, f) ==
    \E i \in 1..Len(f) :
        f[i].k \in {"const", "indentConst"} /\ f[i].n = d /\ DepthAt(f, i) = 0

\* C3: the analyzer is conservative: is_safe_dependency answers SAFE only
\* for a name that is the target of an import statement of the file or is
\* bound by a module-level declaration; every other name is UNSAFE.
C3_SafeOnlyIfImportedOrModuleConst ==
    verdict = "SAFE" => (ImportTarget(dep, content) \/ ModuleLevelConst(dep, content))

\* C4: a name that matches a volatile pattern (set + upper-case letter, a
\* '.', or the suffix Setter, Handler or Callback) is UNSAFE for every file,
\* also when the file imports it or declares it at module level.
C4_VolatileIsUnsafe ==
    (verdict # "none" /\ MatchesUnsafePattern(dep)) => verdict = "UNSAFE"

\* C4's case: setCount, imported by the file, has been analyzed.
C4_Witness ==
    /\ verdict = "UNSAFE" /\ dep = SETCOUNT
    /\ ImportTarget(dep, content) /\ ModuleLevelConst(dep, content)

(***************************************************************************)
(* process_hooks_violations.  A violation is a record of the line ESLint   *)
(* reported, the missing dependencies its message names, and whether the   *)
(* message has the 'missing dependency' form (ok).                         *)
(***************************************************************************)
Reason == "Contains potentially unsafe dependencies"

\* A ledger that is not append-only: the new item is put in front of the
\* items already recorded.
add_manual_review_comment_in_front(st, line_number, deps) ==
    IF line_number <= 0 \/ line_number > Len(st.disk) THEN st
    ELSE IF line_number - 1 > 0 /\ st.disk[line_number - 1].k = "disable" THEN st
    ELSE [disk |-> SubSeq(st.disk, 1, line_number - 1) \o <<Line("disable", deps)>>
                     \o SubSeq(st.disk, line_number, Len(st.disk)),
          items |-> <<[line |-> line_number, dependencies |-> deps, reason |-> Reason]>>
                      \o st.items,
          fixes |-> st.fixes + 1]

\* add_manual_review_comment(file_path, line_number, dependencies, hook_type)
\* on the state st = [disk, items, fixes] of the run.
add_manual_review_comment(st, line_number, deps) ==
    IF line_number <= 0 \/ line_number > Len(st.disk) THEN st
    ELSE IF line_number - 1 > 0 /\ st.disk[line_number - 1].k = "disable" THEN st
    ELSE [disk |-> SubSeq(st.disk, 1, line_number - 1) \o <<Line("disable", deps)>>
                     \o SubSeq(st.disk, line_number, Len(st.disk)),
          items |-> Append(st.items,
                      [line |-> line_number, dependencies |-> deps, reason |-> Reason]),
          fixes |-> st.fixes + 1]

RECURSIVE SortedByLine(_)
\* sorted(violations, key=line, reverse=True): stable, highest line first.
SortedByLine(vs) ==
    IF vs = <<>> THEN <<>>
    ELSE LET top == Max({vs[i].line : i \in 1..Len(vs)})
             k == Min({i \in 1..Len(vs) : vs[i].line = top})
         IN <<vs[k]>> \o SortedByLine(SubSeq(vs, 1, k - 1) \o SubSeq(vs, k + 1, Len(vs)))

\* unsafe_deps of a violation, judged on the content read at the start.
UnsafeDeps(v, file_content) ==
    {i \in 1..Len(v.deps) : ~is_safe_dependency(v.deps[i], file_content)}

RECURSIVE ProcessViolations(_, _, _)
\* The loop of process_hooks_violations: a violation without details is
\* skipped; both branches call add_manual_review_comment.
ProcessViolations(vs, file_content, st) ==
    IF vs = <<>> THEN st
    ELSE ProcessViolations(Tail(vs), file_content,
            IF ~Head(vs).ok THEN st
            ELSE IF UnsafeDeps(Head(vs), file_content) # {}
            THEN add_manual_review_comment(st, Head(vs).line, Head(vs).deps)
            ELSE add_manual_review_comment(st, Head(vs).line, Head(vs).deps))

HookItems == {Line("import", FOO), Line("hook", <<>>), Line("disable", <<FOO>>)}
DepLists == {<<FOO>>, <<SETCOUNT>>, <<FOO, SETCOUNT>>}
Violations ==
    {[line |-> l, deps |-> d, ok |-> TRUE] : l \in 0..(MaxHookLines + 1), d \in DepLists}
      \cup {[line |-> 1, deps |-> <<FOO>>, ok |-> FALSE]}

HkInit ==
    /\ RwIdle /\ ConflictsIdle /\ ClassifyIdle /\ ParseIdle /\ BatchIdle /\ WriteIdle /\ LedgerIdle /\ ReportIdle /\ TopIdle /\ Ts7006Idle /\ TryCatchIdle
    /\ hkDisk \in SeqsUpTo(HookItems, MaxHookLines)
    /\ violations \in SeqsUpTo(Violations, MaxViolations)
    /\ content = hkDisk
    /\ dep = <<>> /\ verdict = "none"
    /\ manual_review_items = <<>>
    /\ fixes_applied = 0 /\ hkDone = FALSE

\* process_hooks_violations(file_path, violations): nothing is read when
\* there is no violation.
ProcessHooksViolations ==
    /\ ~hkDone
    /\ hkDone' = TRUE
    /\ IF violations = <<>>
       THEN UNCHANGED <<hkDisk, manual_review_items, fixes_applied>>
       ELSE \E st \in {ProcessViolations(SortedByLine(violations), hkDisk,
                         [disk |-> hkDisk, items |-> manual_review_items, fixes |-> 0])} :
              /\ hkDisk' = st.disk
              /\ manual_review_items' = st.items
              /\ fixes_applied' = st.fixes
    /\ UNCHANGED <<tcVars, t7Vars, txVars, rpVars, lgVars, psVars, wrVars, bfVars, rwVars, cfVars, clVars, content, dep, verdict, violations>>

HkNext == ProcessHooksViolations

SpecHooks == HkInit /\ [][HkNext]_vars

\* A ledger entry made on account of violation v.
Reported(v) ==
    \E i \in 1..Len(manual_review_items) :
        /\ manual_review_items[i].line = v.line
        /\ manual_review_items[i].dependencies = v.deps

\* The hook line of v exists and has no annotation above it yet.
Annotatable(v, f) ==
    /\ v.line \in 1..Len(f)
    /\ v.line > 1 => f[v.line - 1].k # "disable"

\* C5: for each violation handled by process_hooks_violations, a
\* ManualReviewItem with its annotation is created when some missing
\* dependency is UNSAFE (and the hook line can be annotated), and neither an
\* item nor a change of the source is made on account of a violation whose
\* dependencies are all SAFE.
C5_ReviewOnlyForUnsafe ==
    hkDone =>
      /\ \A i \in 1..Len(violations) :
            LET v == violations[i]
            IN /\ (v.ok /\ UnsafeDeps(v, content) # {} /\ Annotatable(v, content))
                     => Reported(v)
               /\ (v.ok /\ UnsafeDeps(v, content) = {}) => ~Reported(v)
      /\ (\A i \in 1..Len(violations) :
            violations[i].ok => UnsafeDeps(violations[i], content) = {})
           => hkDisk = content

(***************************************************************************)
(* The conflict resolvers: resolve_all_conflicts.py,                       *)
(* resolve_typescript_conflicts.py, resolve_conflicts.py and               *)
(* cleanup_orphaned_markers.py.  The tokens of a conflicted file: the      *)
(* three markers, line breaks, spaces, and pieces of code and comments.    *)
(***************************************************************************)
NOTE == "// auto: note"
IMPN == "// auto: added missing React import"
GLOB == "/* global React */"
UNTYPED == "const x = 1;"
TYPED == "const x: number = 1;"
OTHERV == "const y = 2;"
BSD == "re(/\\d+/);"
BSN == "log('a\\n');"
PREVNUM == "f(prev: number)"
PREVANY == "f(prev: any)"
JSXL == "JSX.IntrinsicElements;"
PLAIN == "x();"

\* What the character classes and literals of the patterns find in a token.
AutoToks == {NOTE, IMPN}        \* // auto: [^\n]*
GlobalToks == {GLOB}            \* /\* global [^*]* \*/, /\* global \w+ \*/
TypeToks == {TYPED, NOTE, IMPN, PREVNUM, PREVANY}   \* :\s*[A-Za-z][A-Za-z0-9]*
AnyToks == {PREVANY}            \* 'any' in main_content
AngleEqToks == {HEADM, SEP, MAINM, UNTYPED, TYPED, OTHERV}  \* holds <, > or =
JsxToks == {JSXL}
FnToks == {}
BadEscapeToks == {BSD}          \* a template with \d: re.error

HasTok(x, S) == \E k \in 1..Len(x) : x[k] \in S

RECURSIVE StripComment(_, _, _, _)
\* re.sub(r'\s*C[^\n]*', '', x) when toEol, re.sub(r'\s*C', '', x) when not,
\* for the comments C that are the tokens of S, scanned from i.
StripComment(x, i, S, toEol) ==
    IF i > Len(x) THEN <<>>
    ELSE IF At(x, RunEnd(x, i, SpaceToks) + 1) \in S
    THEN StripComment(x, (IF toEol THEN LineLast(x, RunEnd(x, i, SpaceToks) + 1)
                          ELSE RunEnd(x, i, SpaceToks) + 1) + 1, S, toEol)
    ELSE <<x[i]>> \o StripComment(x, i + 1, S, toEol)

\* cleaned_head: the two substitutions that remove auto-generated comments.
CleanHead(head) == StripComment(StripComment(head, 1, AutoToks, TRUE), 1, GlobalToks, FALSE)

RECURSIVE Template(_)
\* The text a replacement template stands for: \n is a line break.
Template(x) ==
    IF x = <<>> THEN <<>>
    ELSE (IF Head(x) = BSN THEN <<"log('a", NL, "');">> ELSE <<Head(x)>>)
           \o Template(Tail(x))

\* The patterns with a one-line main side that prefer it (r'\1'): glob, the
\* head starts with a line that is a global comment; any, the head line is
\* [^\n]*; need, what the head line must hold otherwise.
all_patterns ==
    << [kind |-> "shape", glob |-> TRUE, any |-> FALSE, need |-> {IMPN}],
       [kind |-> "shape", glob |-> FALSE, any |-> FALSE, need |-> JsxToks],
       [kind |-> "shape", glob |-> FALSE, any |-> FALSE, need |-> FnToks] >>

file_patterns ==
    << [kind |-> "shape", glob |-> TRUE, any |-> TRUE, need |-> {}],
       [kind |-> "shape", glob |-> FALSE, any |-> FALSE, need |-> {IMPN}],
       [kind |-> "shape", glob |-> FALSE, any |-> FALSE, need |-> JsxToks],
       [kind |-> "pattern4"] >>

\* Patterns 1 to 4 of resolve_typescript_conflicts: both sides over [^<>=],
\* the head holding a typed form and main the 'any' form; they prefer HEAD.
\* No token holds '(e: React.' or 'onChange'.
typescript_patterns ==
    << [kind |-> "typed", head |-> {PREVNUM, PREVANY}, main |-> {PREVANY}],
       [kind |-> "typed", head |-> {}, main |-> {}],
       [kind |-> "typed", head |-> {}, main |-> {}],
       [kind |-> "typed", head |-> {PREVNUM, PREVANY}, main |-> {PREVANY}] >>

NoMatch == [e |-> 0, out |-> <<>>]

\* <<<<<<< HEAD\n(head line)\n=======\n([^\n]*)\n>>>>>>> origin/main at i,
\* the head line starting at hs: the end of the match and its group 1.
ShapeFrom(p, s, i, hs, he) ==
    IF /\ p.any \/ HasTok(Slice(s, hs, he), p.need)
       /\ At(s, he + 1) = NL /\ At(s, he + 2) = SEP /\ At(s, he + 3) = NL
       /\ At(s, LineLast(s, he + 4) + 1) = NL
       /\ At(s, LineLast(s, he + 4) + 2) = MAINM
    THEN [e |-> LineLast(s, he + 4) + 2, out |-> Slice(s, he + 4, LineLast(s, he + 4))]
    ELSE NoMatch

MatchShape(p, s, i) ==
    IF s[i] # HEADM \/ At(s, i + 1) # NL THEN NoMatch
    ELSE IF ~p.glob THEN ShapeFrom(p, s, i, i + 2, LineLast(s, i + 2))
    ELSE IF At(s, i + 2) \in GlobalToks /\ At(s, i + 3) = NL
    THEN ShapeFrom(p, s, i, i + 4, LineLast(s, i + 4))
    ELSE NoMatch

\* The typed patterns at i, b the first token from i + 2 on that holds <, >
\* or = and c the first one after the separator: group 1 is the head.
TypedFrom(p, s, i, b, c) ==
    IF /\ b >= i + 4 /\ s[b] = SEP /\ s[b - 1] = NL /\ At(s, b + 1) = NL
       /\ c >= b + 4 /\ s[c] = MAINM /\ s[c - 1] = NL
       /\ HasTok(Slice(s, i + 2, b - 2), p.head)
       /\ HasTok(Slice(s, b + 2, c - 2), p.main)
    THEN [e |-> c, out |-> Slice(s, i + 2, b - 2)]
    ELSE NoMatch

MatchTyped(p, s, i) ==
    IF s[i] # HEADM \/ At(s, i + 1) # NL THEN NoMatch
    ELSE TypedFrom(p, s, i, FirstIn(s, i + 2, Len(s), AngleEqToks),
            FirstIn(s, FirstIn(s, i + 2, Len(s), AngleEqToks) + 1, Len(s), AngleEqToks))

\* =======\n(?:(?!>>>>>>>).*\n)*?>>>>>>> origin/main with the separator at q
\* (DOTALL): the index of the end marker, or 0.  The lazy group is empty
\* when the marker follows at once; else its greedy '.*' runs to the last
\* line break that an end marker follows.
Pattern4Rest(s, q) ==
    IF At(s, q) # SEP \/ At(s, q + 1) # NL THEN 0
    ELSE IF At(s, q + 2) = MAINM THEN q + 2
    ELSE Max({0} \cup {r + 1 : r \in {k \in (q + 2)..Len(s) :
                                         s[k] = NL /\ At(s, k + 1) = MAINM}})

RStrip(x) == Slice(x, 1, Max({0} \cup {k \in 1..Len(x) : x[k] \notin SpaceToks}))

\* clean_head_content(match) for group 1 = s[i + 2 .. q].
Pattern4Out(s, i, q) ==
    [e |-> Pattern4Rest(s, q + 1),
     out |-> RStrip(CleanHead(Slice(s, i + 2, q))) \o <<NL>>]

\* pattern4 of resolve_conflict_file at i: group 1 is empty when the
\* separator follows the start marker; else its greedy '.*' runs to the last
\* line break (at q) from which the rest of the pattern matches.
MatchPattern4(s, i) ==
    IF s[i] # HEADM \/ At(s, i + 1) # NL THEN NoMatch
    ELSE IF Pattern4Rest(s, i + 2) # 0 THEN Pattern4Out(s, i, i + 1)
    ELSE IF At(s, i + 2) = MAINM THEN NoMatch
    ELSE IF \A q \in (i + 2)..Len(s) : s[q] # NL \/ Pattern4Rest(s, q + 1) = 0
    THEN NoMatch
    ELSE Pattern4Out(s, i, Max({q \in (i + 2)..Len(s) :
                                  s[q] = NL /\ Pattern4Rest(s, q + 1) # 0}))

CfMatch(p, s, i) ==
    CASE p.kind = "shape" -> MatchShape(p, s, i)
      [] p.kind = "typed" -> MatchTyped(p, s, i)
      [] p.kind = "pattern4" -> MatchPattern4(s, i)

RECURSIVE CfSubFrom(_, _, _)
CfSubAt(p, s, i, m) ==
    IF m.e = 0 THEN <<s[i]>> \o CfSubFrom(p, s, i + 1)
    ELSE m.out \o CfSubFrom(p, s, m.e + 1)

\* re.sub(pattern, r'\1' or a function, content), scanned from i.
CfSubFrom(p, s, i) ==
    IF i > Len(s) THEN <<>> ELSE CfSubAt(p, s, i, CfMatch(p, s, i))

RECURSIVE CfSubAll(_, _)
CfSubAll(rules, s) ==
    IF rules = <<>> THEN s ELSE CfSubAll(Tail(rules), CfSubFrom(Head(rules), s, 1))

\* <<<<<<< HEAD\n(.*?)\n=======\n(.*?)\n>>>>>>> origin/main (DOTALL) at i,
\* j the first '\n=======\n' from i + 2 on and k the first '\n>>>>>>>
\* origin/main' after it (0 when there is none).
ConflictAt(s, i, j, k) ==
    IF s[i] # HEADM \/ At(s, i + 1) # NL \/ j = 0 \/ k = 0 THEN NoMatch
    ELSE [e |-> k + 1, head |-> Slice(s, i + 2, j - 1), main |-> Slice(s, j + 3, k - 1)]

FirstSep(s, i) ==
    LET J == {j \in i..Len(s) : s[j] = NL /\ At(s, j + 1) = SEP /\ At(s, j + 2) = NL}
    IN IF J = {} THEN 0 ELSE Min(J)

FirstEnd(s, i) ==
    LET K == {k \in i..Len(s) : s[k] = NL /\ At(s, k + 1) = MAINM}
    IN IF K = {} THEN 0 ELSE Min(K)

RECURSIVE FindConflicts(_, _)
FindNext(s, i, m) ==
    IF m.e = 0 THEN FindConflicts(s, i + 1)
    ELSE <<[head |-> m.head, main |-> m.main]>> \o FindConflicts(s, m.e + 1)

\* remaining_conflicts = re.findall(..., content, re.DOTALL)
FindConflicts(s, i) ==
    IF i > Len(s) THEN <<>>
    ELSE FindNext(s, i, ConflictAt(s, i, FirstSep(s, i + 2),
            IF FirstSep(s, i + 2) = 0 THEN 0 ELSE FirstEnd(s, FirstSep(s, i + 2) + 3)))

RECURSIVE Normalize(_, _)
\* re.sub(r'\s+', ' ', x) from i.
Normalize(x, i) ==
    IF i > Len(x) THEN <<>>
    ELSE IF x[i] \in SpaceToks THEN <<" ">> \o Normalize(x, RunEnd(x, i, SpaceToks) + 1)
    ELSE <<x[i]>> \o Normalize(x, i + 1)

\* The replacement resolve_all_conflicts chooses: main when the cleaned head
\* equals it, the cleaned head otherwise.
ChooseAll(cleaned_head, main_content) ==
    IF Strip(cleaned_head) = Strip(main_content) THEN main_content ELSE cleaned_head

\* The replacement resolve_typescript_conflicts chooses.
ChooseTs(head_content, main_content) ==
    IF /\ HasTok(head_content, TypeToks)
       /\ HasTok(main_content, AnyToks) \/ ~HasTok(main_content, TypeToks)
    THEN head_content
    ELSE IF Strip(head_content) = Strip(main_content) THEN main_content
    ELSE IF Normalize(Strip(head_content), 1) = Normalize(Strip(main_content), 1)
    THEN main_content
    ELSE head_content

\* content = re.sub(re.escape(conflict), replacement, content): the
\* replacement is a template, and a bad escape in it raises.
ReplaceConflict(c, replacement, text) ==
    IF HasTok(replacement, BadEscapeToks) THEN [content |-> text, ok |-> FALSE]
    ELSE [content |->
            ReSubLiteral(<<HEADM, NL>> \o c.head \o <<NL, SEP, NL>> \o c.main
                           \o <<NL, MAINM>>, Template(replacement), text, 1),
          ok |-> TRUE]

RECURSIVE ResolveLoop(_, _, _)
\* for head_content, main_content in remaining_conflicts: ...
ResolveLoop(script, conflicts, st) ==
    IF conflicts = <<>> \/ ~st.ok THEN st
    ELSE ResolveLoop(script, Tail(conflicts),
            ReplaceConflict(Head(conflicts),
                IF script = "all"
                THEN ChooseAll(CleanHead(Head(conflicts).head), Head(conflicts).main)
                ELSE ChooseTs(Head(conflicts).head, Head(conflicts).main),
                st.content))

ResolveRemaining(script, c) ==
    ResolveLoop(script, FindConflicts(c, 1), [content |-> c, ok |-> TRUE])

\* The try block of resolve_all_conflicts for a file holding s: the content
\* computed, and ok = FALSE when it raised.
resolve_all_conflicts(s) == ResolveRemaining("all", CfSubAll(all_patterns, s))

\* The try block of resolve_typescript_conflicts for a file holding s.
resolve_typescript_conflicts(s) == ResolveRemaining("ts", CfSubAll(typescript_patterns, s))

RECURSIVE LiteralAll(_, _)
LiteralAll(rules, s) ==
    IF rules = <<>> THEN s
    ELSE LiteralAll(Tail(rules), ReSubLiteral(Head(rules).old, Head(rules).new, s, 1))

\* Final cleanup - remove any remaining conflict markers.
final_cleanup ==
    << [old |-> <<HEADM, NL>>, new |-> <<>>],
       [old |-> <<SEP, NL>>, new |-> <<>>],
       [old |-> <<MAINM, NL>>, new |-> <<>>],
       [old |-> <<MAINM>>, new |-> <<>>] >>

\* A resolver without the test for the start marker: the final cleanup runs
\* over every file.
resolve_conflict_file_without_test(s) ==
    LiteralAll(final_cleanup, CfSubAll(file_patterns, s))

\* The content resolve_conflict_file computes for a file holding s.
resolve_conflict_file(s) ==
    IF ~HasTok(s, {HEADM}) THEN s
    ELSE LiteralAll(final_cleanup, CfSubAll(file_patterns, s))

orphan_fixes ==
    << [old |-> <<NL, HEADM, NL>>, new |-> <<NL>>],
       [old |-> <<HEADM, NL>>, new |-> <<>>],
       [old |-> <<NL, SEP, NL, NL, MAINM>>, new |-> <<>>],
       [old |-> <<SEP, NL, NL, MAINM>>, new |-> <<>>],
       [old |-> <<NL, SEP, NL, MAINM>>, new |-> <<>>],
       [old |-> <<SEP, NL, MAINM>>, new |-> <<>>] >>

\* The content cleanup_orphaned_markers computes for a file holding s.
cleanup_orphaned_markers(s) == LiteralAll(orphan_fixes, s)

\* The conflicted files: up to MaxBlocks blocks, a block being a plain
\* line, a well-formed region with its two sides, or a malformed marker
\* sequence.
Block(k, h, m) == [kind |-> k, head |-> h, main |-> m]

Regions ==
    { Block("region", <<UNTYPED, " ", NOTE>>, <<UNTYPED>>),
      Block("region", <<BSD, " ", NOTE>>, <<BSD>>),
      Block("region", <<BSN, " ", NOTE>>, <<BSN>>),
      Block("region", <<UNTYPED>>, <<TYPED>>),
      Block("region", <<TYPED>>, <<UNTYPED, " ", NOTE>>),
      Block("region", <<UNTYPED>>, <<OTHERV>>),
      Block("region", <<PREVNUM>>, <<PREVANY>>),
      Block("region", <<JSXL>>, <<UNTYPED>>),
      Block("region", <<GLOB, NL, PLAIN, " ", IMPN>>, <<PLAIN>>) }

Malformed ==
    { Block("emptyHead", <<>>, <<UNTYPED>>), Block("emptyMain", <<UNTYPED>>, <<>>),
      Block("noSep", <<UNTYPED>>, <<>>), Block("noEnd", <<UNTYPED>>, <<OTHERV>>),
      Block("loneStart", <<>>, <<>>), Block("loneSep", <<>>, <<>>),
      Block("loneEnd", <<>>, <<>>) }

Blocks == Regions \cup Malformed \cup {Block("plain", <<>>, <<>>)}

BlockText(b) ==
    CASE b.kind = "region" ->
            <<HEADM, NL>> \o b.head \o <<NL, SEP, NL>> \o b.main \o <<NL, MAINM, NL>>
      [] b.kind = "emptyHead" -> <<HEADM, NL, SEP, NL>> \o b.main \o <<NL, MAINM, NL>>
      [] b.kind = "emptyMain" -> <<HEADM, NL>> \o b.head \o <<NL, SEP, NL, MAINM, NL>>
      [] b.kind = "noSep" -> <<HEADM, NL>> \o b.head \o <<NL, MAINM, NL>>
      [] b.kind = "noEnd" -> <<HEADM, NL>> \o b.head \o <<NL, SEP, NL>> \o b.main \o <<NL>>
      [] b.kind = "loneStart" -> <<HEADM, NL>>
      [] b.kind = "loneSep" -> <<SEP, NL>>
      [] b.kind = "loneEnd" -> <<MAINM, NL>>
      [] b.kind = "plain" -> <<PLAIN, NL>>

RECURSIVE Flatten(_)
Flatten(bs) == IF bs = <<>> THEN <<>> ELSE BlockText(Head(bs)) \o Flatten(Tail(bs))

CfInit ==
    /\ RwIdle /\ HooksIdle /\ ClassifyIdle /\ ParseIdle /\ BatchIdle /\ WriteIdle /\ LedgerIdle /\ ReportIdle /\ TopIdle /\ Ts7006Idle /\ TryCatchIdle
    /\ cfBlocks \in SeqsUpTo(Blocks, MaxBlocks)
    /\ cfDisk = Flatten(cfBlocks)
    /\ cfScript = "none" /\ cfOutcome = "none" /\ resolved_count = 0

\* What a script does with the file once its try block has computed r: an
\* exception is reported and the file is left alone; the file is written
\* and counted only when the content changed.
FileRun(script, r) ==
    /\ cfScript = "none"
    /\ cfScript' = script
    /\ IF ~r.ok THEN cfOutcome' = "error" /\ UNCHANGED <<cfDisk, resolved_count>>
       ELSE IF r.content # cfDisk
       THEN /\ cfDisk' = r.content
            /\ cfOutcome' = "resolved"
            /\ resolved_count' = resolved_count + 1
       ELSE cfOutcome' = "unchanged" /\ UNCHANGED <<cfDisk, resolved_count>>
    /\ UNCHANGED <<tcVars, t7Vars, txVars, rpVars, lgVars, psVars, wrVars, bfVars, rwVars, hkVars, clVars, cfBlocks>>

\* The body of the loop of each script for the file.
RunResolveAll == FileRun("all", resolve_all_conflicts(cfDisk))

RunResolveTypescript == FileRun("ts", resolve_typescript_conflicts(cfDisk))

RunResolveConflictFile ==
    FileRun("file", [content |-> resolve_conflict_file(cfDisk), ok |-> TRUE])

RunCleanupOrphanedMarkers ==
    FileRun("cleanup", [content |-> cleanup_orphaned_markers(cfDisk), ok |-> TRUE])

CfNext ==
    \/ RunResolveAll
    \/ RunResolveTypescript
    \/ RunResolveConflictFile
    \/ RunCleanupOrphanedMarkers

SpecConflicts == CfInit /\ [][CfNext]_vars

\* ---- What the conflict contract says about a region ----

\* The text of a side that counts: everything but the auto-generated
\* comment markers and the white space around them.
Significant(x) ==
    SelectSeq(x, LAMBDA t : t \notin (AutoToks \cup GlobalToks \cup SpaceToks))

\* The number of explicit type annotations a side carries.
Annotations(x) == Cardinality({k \in 1..Len(x) : x[k] \in {TYPED, PREVNUM}})

\* A side with its explicit type annotations weakened.
Untyped(x) ==
    [k \in 1..Len(x) |-> CASE x[k] = TYPED -> UNTYPED
                           [] x[k] = PREVNUM -> PREVANY
                           [] OTHER -> x[k]]

\* Side a is preferred to side b: it carries more explicit type annotations
\* and b reduces to it.
Prefers(a, b) ==
    /\ Annotations(a) > Annotations(b)
    /\ Untyped(Significant(a)) = Untyped(Significant(b))

SameText(b) == b.kind = "region" /\ Significant(b.head) = Significant(b.main)

Undisambiguated(b) ==
    /\ b.kind = "region"
    /\ ~SameText(b)
    /\ ~Prefers(b.head, b.main) /\ ~Prefers(b.main, b.head)

IsPlain(b) == b.kind = "plain"

\* The file the contract asks for: each region for which the contract
\* names a text is replaced by that text, every other block is untouched.
Resolved(b) ==
    IF SameText(b) THEN Significant(b.main) \o <<NL>>
    ELSE IF b.kind = "region" /\ Prefers(b.main, b.head) THEN b.main \o <<NL>>
    ELSE IF b.kind = "region" /\ Prefers(b.head, b.main) THEN b.head \o <<NL>>
    ELSE BlockText(b)

RECURSIVE Contract(_)
Contract(bs) == IF bs = <<>> THEN <<>> ELSE Resolved(Head(bs)) \o Contract(Tail(bs))

NoMarkers(s) == \A k \in 1..Len(s) : s[k] \notin {HEADM, SEP, MAINM}

\* C6: when every conflict region of the file has a head text equal to its
\* main text once the auto-generated comment markers are stripped, then after
\* resolve_all_conflicts the file holds that shared text in place of each
\* region and no conflict marker, whatever characters the shared text has.
C6_SameTextResolvesToSharedText ==
    (cfScript = "all"
        /\ \A k \in 1..Len(cfBlocks) : IsPlain(cfBlocks[k]) \/ SameText(cfBlocks[k]))
    => (cfDisk = Contract(cfBlocks) /\ NoMarkers(cfDisk))

\* C7: when the regions of the file are all regions the heuristic cannot
\* disambiguate, a resolver leaves the file as it was, markers intact, and
\* a ManualReviewItem is emitted when there is such a region: no side is
\* picked by default.
C7_UndisambiguatedIsLeftForReview ==
    (cfScript \in {"all", "ts", "file"}
        /\ \A k \in 1..Len(cfBlocks) :
              IsPlain(cfBlocks[k]) \/ Undisambiguated(cfBlocks[k]))
    => /\ cfDisk = Flatten(cfBlocks)
       /\ (\E k \in 1..Len(cfBlocks) : Undisambiguated(cfBlocks[k]))
             => manual_review_items # <<>>

\* A file whose only marker lines are those of one malformed sequence.
OneMalformed(bs) ==
    /\ Cardinality({k \in 1..Len(bs) : bs[k] \in Malformed}) = 1
    /\ \A k \in 1..Len(bs) : IsPlain(bs[k]) \/ bs[k] \in Malformed

\* A file made of a region with an empty head followed by a region.
EmptySideThenRegion(bs) ==
    Len(bs) = 2 /\ bs[1].kind = "emptyHead" /\ bs[2].kind = "region"

StartsWith(s, prefix) ==
    Len(s) >= Len(prefix) /\ SubSeq(s, 1, Len(prefix)) = prefix

\* C8: a file whose only marker lines are those of one malformed marker
\* sequence is left byte for byte as it was by every script and is not
\* counted as resolved; and a region with an empty side that is followed by
\* a region is still there, byte for byte, after the script has run (no
\* splice across the two).
C8_MalformedIsUntouched ==
    /\ (cfScript \in {"all", "file", "cleanup"} /\ OneMalformed(cfBlocks))
          => (cfDisk = Flatten(cfBlocks) /\ resolved_count = 0)
    /\ (cfScript \in {"all", "file", "cleanup"} /\ EmptySideThenRegion(cfBlocks))
          => StartsWith(cfDisk, BlockText(cfBlocks[1]))

\* C9: when in every region of the file one side carries more explicit type
\* annotations than the other, which reduces to it, the file resolves to
\* the text of the more strongly typed side of each region, whether that
\* side is HEAD or main.
C9_StrongerTypingWinsOnEitherSide ==
    (cfScript \in {"all", "ts"}
        /\ \A k \in 1..Len(cfBlocks) :
              \/ IsPlain(cfBlocks[k])
              \/ /\ cfBlocks[k].kind = "region"
                 /\ \/ Prefers(cfBlocks[k].head, cfBlocks[k].main)
                    \/ Prefers(cfBlocks[k].main, cfBlocks[k].head))
    => cfDisk = Contract(cfBlocks)

(***************************************************************************)
(* Classification of compiler diagnostics: classify_ts_errors.py,          *)
(* analyze_ts_errors.py and classify_ts_errors_1b.py.  A parsed diagnostic *)
(* is a record [file, code, message]; file and message are sequences of    *)
(* pieces of text, cut so that each phrase a classifier looks for is a run *)
(* of whole pieces.                                                        *)
(***************************************************************************)
QT == "'"
SP == " "

\* str.lower(), piece by piece.
Lower(piece) ==
    CASE piece = "Property" -> "property"
      [] piece = "Props" -> "props"
      [] piece = "Card" -> "card"
      [] piece = "IntrinsicAttributes" -> "intrinsicattributes"
      [] piece = "Type" -> "type"
      [] piece = "Tier" -> "tier"
      [] piece = "User" -> "user"
      [] piece = "Persona" -> "persona"
      [] piece = "DetectionData" -> "detectiondata"
      [] piece = "Analytics" -> "analytics"
      [] piece = "D1Database" -> "d1database"
      [] piece = "WakeUpMood" -> "wakeupmood"
      [] piece = "Timeout" -> "timeout"
      [] piece = "NodeJS." -> "nodejs."
      [] piece = "JSX" -> "jsx"
      [] piece = "Duplicate" -> "duplicate"
      [] piece = "Object literal may only specify known properties"
            -> "object literal may only specify known properties"
      [] piece = "Accessibility" -> "accessibility"
      [] piece = "Tester" -> "tester"
      [] piece = "App" -> "app"
      [] piece = "Profile" -> "profile"
      [] piece = "Cannot find name" -> "cannot find name"
      [] piece = "Cannot find module" -> "cannot find module"
      [] piece = "Module" -> "module"
      [] piece = "Parameter" -> "parameter"
      [] piece = "Element" -> "element"
      [] piece = "Variable" -> "variable"
      [] piece = "Argument" -> "argument"
      [] piece = "Expression expected." -> "expression expected."
      [] piece = "Block-scoped variable " -> "block-scoped variable "
      [] piece = "No index signature was found." -> "no index signature was found."
      [] piece = "A" -> "a"
      [] OTHER -> piece

LowerText(text) == [k \in 1..Len(text) |-> Lower(text[k])]

\* phrase in text
InText(phrase, text) ==
    \E i \in 1..(Len(text) - Len(phrase) + 1) :
        SubSeq(text, i, i + Len(phrase) - 1) = phrase

\* text.endswith(suffix)
EndsWith(text, suffix) ==
    /\ Len(text) >= Len(suffix)
    /\ SubSeq(text, Len(text) - Len(suffix) + 1, Len(text)) = suffix

\* The pieces that hold a quote character.
QuotePieces == {QT, "implicitly has an 'any' type"}

\* [^']* from position i to position j
NoQuote(text, i, j) == \A m \in i..j : text[m] \notin QuotePieces

\* re.search(r"'[^']*' has no exported member named '[^']*'", text)
NamedMemberPattern(text) ==
    \E i \in 1..Len(text) : \E j \in (i + 1)..Len(text) : \E l \in (j + 6)..Len(text) :
        /\ text[i] = QT /\ text[j] = QT /\ NoQuote(text, i + 1, j - 1)
        /\ SubSeq(text, j + 1, j + 5) = <<SP, "has no ", "exported member", " named ", QT>>
        /\ text[l] = QT /\ NoQuote(text, j + 6, l - 1)

\* ---- classify_ts_errors.py ----
classify_errors_buckets ==
    << "component_props", "user_subscription", "persona_analytics",
       "cloudflare_runtime", "react_jsx_missing", "implicit_any",
       "hoisting_issues", "other" >>

\* The condition of the k-th branch of the if/elif chain of classify_errors
\* for a file, a code and the lowered message.
ClassifyErrorsBranch(k, file, code, message) ==
    CASE k = 1 ->
            /\ InText(<<"property">>, message)
            /\ InText(<<"does not exist on type">>, message)
            /\ \/ InText(<<"intrinsicattributes">>, message)
               \/ InText(<<"props">>, message)
      [] k = 2 ->
            \/ InText(<<"subscription">>, message)
            \/ InText(<<"subscription", "tier">>, message)
            \/ EndsWith(file, <<"user", ".ts">>)
            \/ EndsWith(file, <<"subscription", ".ts">>)
            \/ InText(<<"user">>, LowerText(file))
      [] k = 3 ->
            \/ InText(<<"persona">>, message)
            \/ InText(<<"persona", "detectiondata">>, message)
            \/ InText(<<"persona", "analytics">>, LowerText(file))
      [] k = 4 ->
            \/ InText(<<"d1database">>, message)
            \/ InText(<<"kvnamespace">>, message)
            \/ InText(<<"durableobjectnamespace">>, message)
            \/ InText(<<"cloudflare">>, message)
            \/ EndsWith(file, <<"cloudflare", "-functions.ts">>)
      [] k = 5 ->
            \/ /\ code \in {"TS2307"}
               /\ \/ InText(<<"react">>, message)
                  \/ InText(<<"jsx", "-runtime">>, message)
            \/ /\ code \in {"TS7026", "TS2875"}
               /\ InText(<<"jsx">>, message)
      [] k = 6 -> code \in {"TS7006", "TS7031", "TS7053", "TS7015"}
      [] k = 7 -> code \in {"TS2448", "TS2454"} /\ InText(<<"used before">>, message)
      [] OTHER -> TRUE

RECURSIVE ClassifyErrorsFirst(_, _)
ClassifyErrorsFirst(error, k) ==
    IF ClassifyErrorsBranch(k, error.file, error.code, LowerText(error.message))
    THEN k ELSE ClassifyErrorsFirst(error, k + 1)

\* The bucket the loop body of classify_errors appends the error to.
ClassifyErrorsBucket(error) == classify_errors_buckets[ClassifyErrorsFirst(error, 1)]

\* classify_errors with every branch an if of its own.
classify_errors_independent_branches(errors) ==
    [c \in {classify_errors_buckets[k] : k \in 1..Len(classify_errors_buckets)} |->
        SelectSeq(errors, LAMBDA e :
            \E k \in 1..Len(classify_errors_buckets) :
                /\ classify_errors_buckets[k] = c
                /\ ClassifyErrorsBranch(k, e.file, e.code, LowerText(e.message)))]

\* classify_errors with the chain read from its last branch upwards.
classify_errors_last_branch(errors) ==
    [c \in {classify_errors_buckets[k] : k \in 1..Len(classify_errors_buckets)} |->
        SelectSeq(errors, LAMBDA e :
            \E k \in 1..7 :
                /\ classify_errors_buckets[k] = c
                /\ ClassifyErrorsBranch(k, e.file, e.code, LowerText(e.message))
                /\ \A j \in (k + 1)..7 :
                      ~ClassifyErrorsBranch(j, e.file, e.code, LowerText(e.message)))
        \o SelectSeq(errors, LAMBDA e :
            /\ c = "other"
            /\ \A j \in 1..7 :
                  ~ClassifyErrorsBranch(j, e.file, e.code, LowerText(e.message)))]

classify_errors(errors) ==
    [c \in {classify_errors_buckets[k] : k \in 1..Len(classify_errors_buckets)} |->
        SelectSeq(errors, LAMBDA e : ClassifyErrorsBucket(e) = c)]

\* ---- analyze_ts_errors.py ----
categorize_error_categories ==
    << "component_props", "user_types", "persona_analytics", "cloudflare_types",
       "wakeup_mood", "timeout_types", "import_exports", "duplicate_styles",
       "hoisting_issues", "implicit_any", "missing_imports", "other" >>

\* The condition of the k-th if of categorize_error.
CategorizeErrorTest(k, file_path, error_code, error_message) ==
    CASE k = 1 ->
            \/ /\ InText(<<"not assignable to type">>, error_message)
               /\ InText(<<"Props">>, error_message)
            \/ /\ InText(<<"Property">>, error_message)
               /\ InText(<<"does not exist on type">>, error_message)
               /\ InText(<<"Props">>, error_message)
      [] k = 2 ->
            \/ InText(<<"subscription", "Tier">>, error_message)
            \/ /\ InText(<<"subscription">>, LowerText(error_message))
               /\ InText(<<"User">>, error_message)
      [] k = 3 ->
            \/ InText(<<"Persona", "DetectionData">>, error_message)
            \/ InText(<<"Persona", "Analytics">>, file_path)
      [] k = 4 ->
            \E cf_type \in {"D1Database", "KVNamespace", "DurableObjectNamespace"} :
                InText(<<cf_type>>, error_message)
      [] k = 5 -> InText(<<"WakeUpMood">>, error_message)
      [] k = 6 ->
            /\ InText(<<"Timeout">>, error_message)
            /\ InText(<<"not assignable to type">>, error_message)
      [] k = 7 ->
            \/ InText(<<"has no ", "exported member">>, error_message)
            \/ InText(<<"has no ", "default export">>, error_message)
      [] k = 8 ->
            /\ InText(<<"is specified more than once">>, error_message)
            /\ InText(<<"style">>, error_message)
      [] k = 9 ->
            \/ InText(<<"used before", " its declaration">>, error_message)
            \/ InText(<<"used before", " being assigned">>, error_message)
      [] k = 10 -> InText(<<"implicitly has an 'any' type">>, error_message)
      [] k = 11 -> InText(<<"Cannot find name">>, error_message)
      [] OTHER -> TRUE

RECURSIVE CategorizeErrorFirst(_, _, _, _)
CategorizeErrorFirst(k, file_path, error_code, error_message) ==
    IF CategorizeErrorTest(k, file_path, error_code, error_message)
    THEN k ELSE CategorizeErrorFirst(k + 1, file_path, error_code, error_message)

categorize_error(file_path, error_code, error_message) ==
    categorize_error_categories[CategorizeErrorFirst(1, file_path, error_code, error_message)]

\* buckets[category].append(error) for each error, on a defaultdict(list)
GroupByCategory(errors) ==
    [c \in {categorize_error(errors[i].file, errors[i].code, errors[i].message) :
                i \in 1..Len(errors)} |->
        SelectSeq(errors, LAMBDA e : categorize_error(e.file, e.code, e.message) = c)]

\* ---- classify_ts_errors_1b.py ----
classify_ts_error_categories ==
    << "wakeup_mood_enum", "timeout_conflicts", "import_export_mismatches",
       "accessibility_styles", "implicit_any", "property_access_errors",
       "type_assignment_errors", "missing_type_declarations",
       "object_property_errors", "other_errors" >>

\* The condition of the k-th if of classify_ts_error.
ClassifyTsErrorTest(k, file_path, error_code, error_msg) ==
    CASE k = 1 -> InText(<<"WakeUpMood">>, error_msg)
      [] k = 2 ->
            \/ InText(<<"Timeout">>, error_msg)
            \/ InText(<<"NodeJS.", "Timeout">>, error_msg)
            \/ InText(<<"set", "Timeout">>, error_msg)
      [] k = 3 ->
            \/ NamedMemberPattern(error_msg)
            \/ /\ InText(<<"_">>, error_msg)
               /\ \/ InText(<<"exported member">>, error_msg)
                  \/ InText(<<"Cannot find module">>, error_msg)
            \/ error_code \in {"TS2724", "TS2307"}
      [] k = 4 ->
            /\ \/ InText(<<"Accessibility", "Tester">>, file_path)
               \/ InText(<<"accessibility">>, LowerText(file_path))
            /\ \/ InText(<<"duplicate">>, LowerText(error_msg))
               \/ InText(<<"object literal may only specify known properties">>,
                         LowerText(error_msg))
      [] k = 5 ->
            \/ error_code = "TS7006"
            \/ InText(<<"implicitly has an 'any' type">>, error_msg)
      [] k = 6 -> error_code \in {"TS2339", "TS2741"} /\ InText(<<"Property">>, error_msg)
      [] k = 7 -> error_code \in {"TS2322", "TS2345", "TS2769"}
      [] k = 8 -> error_code \in {"TS2305", "TS2307", "TS2724"}
      [] k = 9 -> error_code \in {"TS7053", "TS2561", "TS2353"}
      [] OTHER -> TRUE

RECURSIVE ClassifyTsErrorFirst(_, _, _, _)
ClassifyTsErrorFirst(k, file_path, error_code, error_msg) ==
    IF ClassifyTsErrorTest(k, file_path, error_code, error_msg)
    THEN k ELSE ClassifyTsErrorFirst(k + 1, file_path, error_code, error_msg)

classify_ts_error(file_path, error_code, error_msg) ==
    classify_ts_error_categories[ClassifyTsErrorFirst(1, file_path, error_code, error_msg)]

\* parse_ts_errors gives each diagnostic its category as it is parsed.
WithCategory(errors) ==
    [i \in 1..Len(errors) |->
        [file |-> errors[i].file, code |-> errors[i].code, message |-> errors[i].message,
         category |-> classify_ts_error(errors[i].file, errors[i].code, errors[i].message)]]

create_error_buckets(errors) ==
    [c \in {errors[i].category : i \in 1..Len(errors)} \cup {"summary"} |->
        IF c = "summary"
        THEN [total_errors |-> Len(errors),
              categories |-> Cardinality({errors[i].category : i \in 1..Len(errors)})]
        ELSE [count |-> Len(SelectSeq(errors, LAMBDA e : e.category = c)),
              errors |-> SelectSeq(errors, LAMBDA e : e.category = c)]]

\* ---- The diagnostics of a batch ----
Diag(f, c, m) == [file |-> f, code |-> c, message |-> m]

F_APP == <<"src/", "App", ".tsx">>
F_USER == <<"src/types/", "user", ".ts">>
F_SUBSCRIPTION == <<"src/types/", "subscription", ".ts">>
F_USER_PROFILE == <<"src/components/", "User", "Profile", ".tsx">>
F_PERSONA == <<"src/components/", "Persona", "Analytics", ".tsx">>
F_CLOUDFLARE == <<"src/backend/", "cloudflare", "-functions.ts">>
F_ACCESSIBILITY == <<"src/utils/", "Accessibility", "Tester", ".ts">>

NotOnType(x) == <<"Property", SP, QT, "x", QT, SP, "does not exist on type", SP, QT>> \o x \o <<QT, ".">>
NotAssignable(x, y) == <<"Type", SP, QT>> \o x \o <<QT, " is ", "not assignable to type", SP, QT>> \o y \o <<QT, ".">>
NoMember(x) == <<"Module", SP, QT, "\"./a\"", QT, SP, "has no ", "exported member", SP, QT>> \o x \o <<QT, ".">>

Diagnostics ==
    { Diag(F_APP, "TS2339", NotOnType(<<"Card", "Props">>)),
      Diag(F_USER_PROFILE, "TS2339", NotOnType(<<"Card", "Props">>)),
      Diag(F_APP, "TS2322", NotOnType(<<"IntrinsicAttributes">>)),
      Diag(F_APP, "TS2322", NotAssignable(<<"string">>, <<"Card", "Props">>)),
      Diag(F_APP, "TS2339",
           <<"Property", SP, QT, "subscription", "Tier", QT, SP, "does not exist on type",
             SP, QT, "User", QT, ".">>),
      Diag(F_APP, "TS2339",
           <<"Property", SP, QT, "subscription", QT, SP, "does not exist on type",
             SP, QT, "User", QT, ".">>),
      Diag(F_USER, "TS2304", <<"Cannot find name", SP, QT, "foo", QT, ".">>),
      Diag(F_SUBSCRIPTION, "TS1005", <<"Expression expected.">>),
      Diag(F_APP, "TS2339", NotOnType(<<"Persona", "DetectionData">>)),
      Diag(F_PERSONA, "TS1005", <<"Expression expected.">>),
      Diag(F_APP, "TS2304", <<"Cannot find name", SP, QT, "D1Database", QT, ".">>),
      Diag(F_CLOUDFLARE, "TS1005", <<"Expression expected.">>),
      Diag(F_APP, "TS2307", <<"Cannot find module", SP, QT, "react", QT, ".">>),
      Diag(F_APP, "TS2307", <<"Cannot find module", SP, QT, "_", "utils", QT, ".">>),
      Diag(F_APP, "TS7026", <<"JSX", " element implicitly has type ", QT, "any", QT, ".">>),
      Diag(F_APP, "TS7006", <<"Parameter", SP, QT, "x", QT, SP, "implicitly has an 'any' type", ".">>),
      Diag(F_APP, "TS7053", <<"Element", SP, "implicitly has an 'any' type", " because of the index.">>),
      Diag(F_APP, "TS7053", <<"No index signature was found.">>),
      Diag(F_APP, "TS2353", <<"Object literal may only specify known properties", ".">>),
      Diag(F_ACCESSIBILITY, "TS2353", <<"Object literal may only specify known properties", ".">>),
      Diag(F_ACCESSIBILITY, "TS2300", <<"Duplicate", " identifier ", QT, "x", QT, ".">>),
      Diag(F_APP, "TS2448", <<"Block-scoped variable ", QT, "x", QT, SP, "used before", " its declaration", ".">>),
      Diag(F_APP, "TS2454", <<"Variable", SP, QT, "x", QT, " is ", "used before", " being assigned", ".">>),
      Diag(F_APP, "TS2322", NotAssignable(<<"string">>, <<"WakeUpMood">>)),
      Diag(F_APP, "TS2322", NotAssignable(<<"Timeout">>, <<"number">>)),
      Diag(F_APP, "TS2322", NotAssignable(<<"NodeJS.", "Timeout">>, <<"WakeUpMood">>)),
      Diag(F_APP, "TS2345", <<"Argument", " of ", "set", "Timeout", " is not a function.">>),
      Diag(F_APP, "TS2724",
           <<QT, "\"./a\"", QT, SP, "has no ", "exported member", " named ", QT, "foo", QT, ".">>),
      Diag(F_APP, "TS2305", NoMember(<<"foo">>)),
      Diag(F_APP, "TS2305", NoMember(<<"_", "foo">>)),
      Diag(F_APP, "TS1192", <<"Module", SP, QT, "\"./a\"", QT, SP, "has no ", "default export", ".">>),
      Diag(F_APP, "TS2783", <<QT, "style", QT, SP, "is specified more than once", ".">>),
      Diag(F_APP, "TS2741", <<"Property", SP, QT, "x", QT, " is missing in type ", QT, "A", QT, ".">>),
      Diag(F_APP, "TS1005", <<"Expression expected.">>) }

ClInit ==
    /\ RwIdle /\ HooksIdle /\ ConflictsIdle /\ ParseIdle /\ BatchIdle /\ WriteIdle /\ LedgerIdle /\ ReportIdle /\ TopIdle /\ Ts7006Idle /\ TryCatchIdle
    /\ batch \in SeqsUpTo(Diagnostics, MaxBatch)
    /\ buckets = <<>>
    /\ clScript = "none"

\* classify_ts_errors.py: main hands the parsed diagnostics to classify_errors.
RunClassifyErrors ==
    /\ clScript = "none"
    /\ buckets' = classify_errors(batch)
    /\ clScript' = "classify_ts_errors"
    /\ UNCHANGED <<tcVars, t7Vars, txVars, rpVars, lgVars, psVars, wrVars, bfVars, rwVars, hkVars, cfVars, batch>>

\* analyze_ts_errors.py: main categorizes each diagnostic into a defaultdict.
RunAnalyzeTsErrors ==
    /\ clScript = "none"
    /\ buckets' = GroupByCategory(batch)
    /\ clScript' = "analyze_ts_errors"
    /\ UNCHANGED <<tcVars, t7Vars, txVars, rpVars, lgVars, psVars, wrVars, bfVars, rwVars, hkVars, cfVars, batch>>

\* classify_ts_errors_1b.py: main buckets the diagnostics parse_ts_errors
\* has classified.
RunClassifyTsErrors1b ==
    /\ clScript = "none"
    /\ buckets' = create_error_buckets(WithCategory(batch))
    /\ clScript' = "classify_ts_errors_1b"
    /\ UNCHANGED <<tcVars, t7Vars, txVars, rpVars, lgVars, psVars, wrVars, bfVars, rwVars, hkVars, cfVars, batch>>

ClNext ==
    \/ RunClassifyErrors
    \/ RunAnalyzeTsErrors
    \/ RunClassifyTsErrors1b

SpecClassify == ClInit /\ [][ClNext]_vars

\* The categories of the buckets, the diagnostics of a bucket and the count
\* reported for it.
BucketCategories == DOMAIN buckets \ {"summary"}

BucketErrors(c) == IF clScript = "classify_ts_errors_1b" THEN buckets[c].errors ELSE buckets[c]

BucketCount(c) == IF clScript = "classify_ts_errors_1b" THEN buckets[c].count ELSE Len(buckets[c])

RECURSIVE SumCounts(_)
SumCounts(S) ==
    IF S = {} THEN 0
    ELSE LET c == CHOOSE x \in S : TRUE IN BucketCount(c) + SumCounts(S \ {c})

SameDiagnostic(e, d) == e.file = d.file /\ e.code = d.code /\ e.message = d.message

Occurrences(d, errors) == Cardinality({j \in 1..Len(errors) : SameDiagnostic(errors[j], d)})

\* No rule of the script's table but the last, unconditional one holds.
NoRuleMatches(d) ==
    CASE clScript = "classify_ts_errors" ->
            \A k \in 1..7 : ~ClassifyErrorsBranch(k, d.file, d.code, LowerText(d.message))
      [] clScript = "analyze_ts_errors" ->
            \A k \in 1..11 : ~CategorizeErrorTest(k, d.file, d.code, d.message)
      [] clScript = "classify_ts_errors_1b" ->
            \A k \in 1..9 : ~ClassifyTsErrorTest(k, d.file, d.code, d.message)
      [] OTHER -> FALSE

OtherBucket == IF clScript = "classify_ts_errors_1b" THEN "other_errors" ELSE "other"

\* C10: after a classifier has run over a batch of parsed diagnostics, every
\* diagnostic of the batch is in the bucket of exactly one category, as many
\* times as it is in the batch; a diagnostic that no rule matches is in the
\* other bucket; and the per-category counts add up to the size of the batch.
C10_ClassificationPartitionsBatch ==
    clScript # "none" =>
        /\ SumCounts(BucketCategories) = Len(batch)
        /\ \A c \in BucketCategories : BucketCount(c) = Len(BucketErrors(c))
        /\ \A i \in 1..Len(batch) :
              /\ Cardinality({c \in BucketCategories :
                                Occurrences(batch[i], BucketErrors(c)) > 0}) = 1
              /\ \A c \in BucketCategories :
                    Occurrences(batch[i], BucketErrors(c)) > 0
                        => Occurrences(batch[i], BucketErrors(c)) = Occurrences(batch[i], batch)
              /\ NoRuleMatches(batch[i])
                    => Occurrences(batch[i], BucketErrors(OtherBucket)) > 0

\* A batch classified by classify_errors that holds a diagnostic two
\* branches match and a diagnostic no branch matches.
C10_Witness ==
    /\ clScript = "classify_ts_errors"
    /\ Len(batch) = 2
    /\ Cardinality({k \in 1..7 : ClassifyErrorsBranch(k, batch[1].file, batch[1].code,
                                                     LowerText(batch[1].message))}) >= 2
    /\ NoRuleMatches(batch[2])
    /\ Len(buckets["other"]) = 1
    /\ Len(buckets["component_props"]) = 1

\* The rule table of the script that has run: its rules' conditions in the
\* written order, and the category each rule gives.
RuleTable ==
    CASE clScript = "classify_ts_errors" -> classify_errors_buckets
      [] clScript = "analyze_ts_errors" -> categorize_error_categories
      [] clScript = "classify_ts_errors_1b" -> classify_ts_error_categories
      [] OTHER -> <<>>

RuleHolds(k, d) ==
    CASE clScript = "classify_ts_errors" ->
            ClassifyErrorsBranch(k, d.file, d.code, LowerText(d.message))
      [] clScript = "analyze_ts_errors" -> CategorizeErrorTest(k, d.file, d.code, d.message)
      [] clScript = "classify_ts_errors_1b" -> ClassifyTsErrorTest(k, d.file, d.code, d.message)
      [] OTHER -> FALSE

InBucket(d, c) == c \in BucketCategories /\ Occurrences(d, BucketErrors(c)) > 0

\* Every rule of each table is the first to hold for some diagnostic.
EveryRuleSelected ==
    /\ \A k \in 1..Len(classify_errors_buckets) :
          \E d \in Diagnostics : ClassifyErrorsFirst(d, 1) = k
    /\ \A k \in 1..Len(categorize_error_categories) :
          \E d \in Diagnostics : CategorizeErrorFirst(1, d.file, d.code, d.message) = k
    /\ \A k \in 1..Len(classify_ts_error_categories) :
          \E d \in Diagnostics : ClassifyTsErrorFirst(1, d.file, d.code, d.message) = k

\* C11: after a classifier has run, each diagnostic of the batch is in the
\* bucket of rule k exactly when rule k holds for it and no rule written
\* before k does, so of two rules that hold the earlier one gives the
\* category; and every rule of every table is the first to hold for at least
\* one diagnostic.
C11_FirstMatchWins ==
    /\ EveryRuleSelected
    /\ clScript # "none" =>
          \A i \in 1..Len(batch) : \A k \in 1..Len(RuleTable) :
              InBucket(batch[i], RuleTable[k])
                <=> (RuleHolds(k, batch[i]) /\ \A j \in 1..(k - 1) : ~RuleHolds(j, batch[i]))

\* A batch classified by classify_ts_error whose first diagnostic satisfies
\* two rules of the table and is in the bucket of the earlier one.
C11_Witness ==
    /\ clScript = "classify_ts_errors_1b"
    /\ Len(batch) >= 1
    /\ \E j \in 1..9 : \E k \in (j + 1)..9 :
          /\ RuleHolds(j, batch[1]) /\ RuleHolds(k, batch[1])
          /\ \A h \in 1..(j - 1) : ~RuleHolds(h, batch[1])
          /\ InBucket(batch[1], RuleTable[j])
          /\ ~InBucket(batch[1], RuleTable[k])

(***************************************************************************)
(* Priorities of diagnostics: analyze_stage2_errors.py and                 *)
(* extract_top_errors.py.  Here a parsed diagnostic is a record            *)
(* [file, line, code]; neither script reads the message to prioritise.     *)
(***************************************************************************)
Info(p, c) == [priority |-> p, category |-> c]

priority_mapping ==
    ("TS2724" :> Info(1, "Import/Export Issues")) @@
    ("TS2305" :> Info(1, "Import/Export Issues")) @@
    ("TS7006" :> Info(2, "Implicit Any Types")) @@
    ("TS2722" :> Info(2, "Undefined Function Calls")) @@
    ("TS2741" :> Info(2, "Missing Properties")) @@
    ("TS2339" :> Info(3, "Property Access")) @@
    ("TS2345" :> Info(3, "Type Mismatch")) @@
    ("TS2322" :> Info(3, "Type Mismatch")) @@
    ("TS2769" :> Info(4, "Function Overloads")) @@
    ("TS2554" :> Info(4, "Function Arguments")) @@
    ("TS2304" :> Info(4, "Type Definitions")) @@
    ("TS2353" :> Info(4, "Object Literals"))

\* priority_mapping.get(error_code, default) with the default put first.
PriorityInfoDefaultFirst(error_code) ==
    IF error_code \in DOMAIN priority_mapping
    THEN priority_mapping[error_code] ELSE Info(1, "Other")

\* priority_mapping.get(error_code, {'priority': 5, 'category': 'Other'})
PriorityInfo(error_code) ==
    IF error_code \in DOMAIN priority_mapping
    THEN priority_mapping[error_code] ELSE Info(5, "Other")

\* categorized_errors[error_code].append(error_info) of parse_stage2_errors
GroupByCode(errors) ==
    [c \in {errors[i].code : i \in 1..Len(errors)} |->
        SelectSeq(errors, LAMBDA e : e.code = c)]

categorize_by_priority(error_data) ==
    [p \in {PriorityInfo(c).priority : c \in DOMAIN error_data.errors} |->
        [c \in {x \in DOMAIN error_data.errors : PriorityInfo(x).priority = p} |->
            [category |-> PriorityInfo(c).category,
             count |-> Len(error_data.errors[c]),
             errors |-> SubSeq(error_data.errors[c], 1, Min({5, Len(error_data.errors[c])}))]]]

severity_map ==
    ("TS1128" :> 10) @@ ("TS1161" :> 10) @@ ("TS1005" :> 10) @@ ("TS2307" :> 9) @@
    ("TS2875" :> 9) @@ ("TS7026" :> 8) @@ ("TS2528" :> 8) @@ ("TS2580" :> 7) @@
    ("TS2688" :> 7) @@ ("TS2339" :> 6) @@ ("TS2322" :> 6) @@ ("TS2345" :> 6) @@
    ("TS2554" :> 5) @@ ("TS7006" :> 4) @@ ("TS7031" :> 4) @@ ("TS7053" :> 4) @@
    ("TS2741" :> 5) @@ ("TS2353" :> 5) @@ ("TS2304" :> 3) @@ ("TS18048" :> 3) @@
    ("TS18046" :> 3) @@ ("TS2722" :> 3)

\* severity_map.get(error['code'], 2)
Severity(code) == IF code \in DOMAIN severity_map THEN severity_map[code] ELSE 2

\* The if/elif chain over the code.
SeverityCategory(code) ==
    IF code \in {"TS1128", "TS1161", "TS1005"} THEN "parse_blockers"
    ELSE IF code \in {"TS2307", "TS2875", "TS2580", "TS2688"} THEN "module_resolution"
    ELSE IF code \in {"TS7026", "TS2528"} THEN "jsx_issues"
    ELSE IF code \in {"TS7006", "TS7031", "TS7053"} THEN "implicit_any"
    ELSE IF code \in {"TS2339", "TS2322", "TS2345", "TS2741"} THEN "type_errors"
    ELSE "other"

\* The errors as the loop leaves them: each with its severity and category.
Prioritized(errors) ==
    [i \in 1..Len(errors) |->
        [file |-> errors[i].file, line |-> errors[i].line, code |-> errors[i].code,
         severity |-> Severity(errors[i].code),
         category |-> SeverityCategory(errors[i].code)]]

categorize_and_prioritize_errors(errors) ==
    [c \in {Prioritized(errors)[i].category : i \in 1..Len(errors)} |->
        SelectSeq(Prioritized(errors), LAMBDA e : e.category = c)]

PriorityCodes == {"TS2724", "TS1005", "TS2339", "TS2554", "TS2741", "TS9999"}
PriorityFiles == {"src/a.ts", "src/b.ts"}
PriorityLines == {5, 8, 15}

PriorityDiagnostics ==
    {[file |-> f, line |-> l, code |-> c] :
        f \in PriorityFiles, l \in PriorityLines, c \in PriorityCodes}

PrInit ==
    /\ RwIdle /\ HooksIdle /\ ConflictsIdle /\ ParseIdle /\ BatchIdle /\ WriteIdle /\ LedgerIdle /\ ReportIdle /\ TopIdle /\ Ts7006Idle /\ TryCatchIdle
    /\ batch \in SeqsUpTo(PriorityDiagnostics, MaxBatch)
    /\ buckets = <<>>
    /\ clScript = "none"

\* analyze_stage2_errors.py: the parsed diagnostics grouped by code are
\* categorized by priority.
RunAnalyzeStage2 ==
    /\ clScript = "none"
    /\ buckets' = categorize_by_priority([errors |-> GroupByCode(batch)])
    /\ clScript' = "analyze_stage2_errors"
    /\ UNCHANGED <<tcVars, t7Vars, txVars, rpVars, lgVars, psVars, wrVars, bfVars, rwVars, hkVars, cfVars, batch>>

\* extract_top_errors.py: each diagnostic of the list gets its severity and
\* category (the dictionaries of the list are updated in place).
RunCategorizeAndPrioritize ==
    /\ clScript = "none"
    /\ buckets' = categorize_and_prioritize_errors(batch)
    /\ batch' = Prioritized(batch)
    /\ clScript' = "extract_top_errors"
    /\ UNCHANGED <<tcVars, t7Vars, txVars, rpVars, lgVars, psVars, wrVars, bfVars, rwVars, hkVars, cfVars>>

\* sorted(errors, key=lambda x: (-x['severity'], x['file'], x['line'])).
TopKeyLess(x, y) ==
    \/ x.severity > y.severity
    \/ x.severity = y.severity /\ LexLess(x.file, y.file)
    \/ x.severity = y.severity /\ x.file = y.file /\ x.line < y.line

SortedBySeverity(errors) ==
    LET place == [i \in DOMAIN errors |->
                    1 + Cardinality({j \in DOMAIN errors :
                            \/ TopKeyLess(errors[j], errors[i])
                            \/ ~TopKeyLess(errors[i], errors[j]) /\ j < i})]
    IN  [p \in DOMAIN errors |-> errors[CHOOSE i \in DOMAIN errors : place[i] = p]]

\* f"{error['file']}:{error['code']}:{error['line']//10*10}"
pattern_key(error) == <<error.file, error.code, (error.line \div 10) * 10>>

\* The loop over the sorted errors, from the i-th on.
RECURSIVE TopErrorsFrom(_, _, _, _, _)
TopErrorsFrom(sorted_errors, i, seen_patterns, unique_errors, limit) ==
    IF i > Len(sorted_errors) THEN unique_errors
    ELSE LET error == sorted_errors[i]
             taken == \/ pattern_key(error) \notin seen_patterns
                      \/ Len(unique_errors) < limit \div 2
             now == IF taken THEN Append(unique_errors, error) ELSE unique_errors
         IN  IF Len(now) >= limit THEN now
             ELSE TopErrorsFrom(sorted_errors, i + 1,
                                IF taken THEN seen_patterns \cup {pattern_key(error)}
                                ELSE seen_patterns,
                                now, limit)

\* The loop without the sort in front of it.
extract_top_errors_unsorted(errors, limit) == TopErrorsFrom(errors, 1, {}, <<>>, limit)

extract_top_errors(errors, limit) ==
    TopErrorsFrom(SortedBySeverity(errors), 1, {}, <<>>, limit)

\* The limits extract_top_errors is called with: main passes 200.
TopLimits == {2, 200}

\* extract_top_errors.py main, after categorize_and_prioritize_errors: the
\* top errors of the list.
RunExtractTopErrors ==
    /\ clScript = "extract_top_errors"
    /\ \E limit \in TopLimits :
            top_errors' = [limit |-> limit, errors |-> extract_top_errors(batch, limit)]
    /\ clScript' = "top_errors"
    /\ UNCHANGED <<tcVars, t7Vars, lgVars, psVars, wrVars, bfVars, rwVars, hkVars, cfVars, rpVars, batch, buckets>>

PrNext ==
    \/ RunAnalyzeStage2
    \/ RunCategorizeAndPrioritize
    \/ RunExtractTopErrors

SpecPriority == PrInit /\ [][PrNext]_vars

\* The priorities under which categorize_by_priority filed a code.
PrioritiesOf(code) == {p \in DOMAIN buckets : code \in DOMAIN buckets[p]}

\* C12: a diagnostic whose code is in no entry of the priority table gets
\* the category Other (other) and a priority strictly less urgent than that
\* of every code of the table: under categorize_by_priority a priority
\* number above every number of priority_mapping, under
\* categorize_and_prioritize_errors a severity below every severity of
\* severity_map.
C12_UnknownCodeIsOtherAndLeastUrgent ==
    /\ clScript = "analyze_stage2_errors" =>
          \A i \in 1..Len(batch) : batch[i].code \notin DOMAIN priority_mapping =>
              \E p \in DOMAIN buckets :
                  /\ PrioritiesOf(batch[i].code) = {p}
                  /\ buckets[p][batch[i].code].category = "Other"
                  /\ \A c \in DOMAIN priority_mapping : priority_mapping[c].priority < p
                  /\ \A j \in 1..Len(batch) : batch[j].code \in DOMAIN priority_mapping =>
                        \A q \in PrioritiesOf(batch[j].code) : q < p
    /\ clScript = "extract_top_errors" =>
          \A i \in 1..Len(batch) : batch[i].code \notin DOMAIN severity_map =>
              /\ batch[i].category = "other"
              /\ "other" \in DOMAIN buckets
              /\ \E k \in 1..Len(buckets["other"]) : buckets["other"][k] = batch[i]
              /\ \A c \in DOMAIN severity_map : severity_map[c] > batch[i].severity
              /\ \A j \in 1..Len(batch) : batch[j].code \in DOMAIN severity_map =>
                    batch[j].severity > batch[i].severity

\* A batch of a diagnostic with an unknown code and one with a code of the
\* table, categorized by priority.
C12_Witness ==
    /\ clScript = "analyze_stage2_errors"
    /\ Len(batch) = 2
    /\ batch[1].code = "TS9999"
    /\ batch[2].code = "TS2554"
    /\ DOMAIN buckets = {4, 5}

(***************************************************************************)
(* The parsers of compiler reports.                                        *)
(*                                                                         *)
(* A report is a sequence of physical lines, and the text a parser reads   *)
(* is the lines' texts, each followed by a newline.  A line is a           *)
(* diagnostic header in one of the two surface forms, possibly indented,   *)
(* or a line that is no header: an indented continuation line, a summary   *)
(* line, a note with a colon in it, or a blank line.                       *)
(***************************************************************************)
MaxReport == 3

INDENT == "  "

NoEntry == [file |-> <<>>, line |-> 0, column |-> 0, code |-> "", message |-> <<>>]

ReportEntries ==
    { [file |-> F_APP, line |-> 12, column |-> 5, code |-> "TS1005",
       message |-> <<"Expression expected.">>],
      [file |-> F_USER, line |-> 3, column |-> 9, code |-> "TS2304",
       message |-> <<"Cannot find name", SP, QT, "foo", QT, ".">>] }

HeaderForms == {"paren", "colon"}

ReportLines ==
    [kind : HeaderForms, indent : BOOLEAN, entry : ReportEntries]
    \cup [kind : {"continuation"}, indent : {TRUE}, entry : {NoEntry}]
    \cup [kind : {"summary", "note", "blank"}, indent : {FALSE}, entry : {NoEntry}]

IsHeader(l) == l.kind \in HeaderForms

\* The text of a line, in pieces; a colon is always a piece of its own.
LineText(l) ==
    (IF l.indent THEN <<INDENT>> ELSE <<>>) \o
    CASE l.kind = "paren" ->
            l.entry.file \o <<"(", ToString(l.entry.line), ",", ToString(l.entry.column), ")",
                              ":", " error ", l.entry.code, ":", SP>> \o l.entry.message
      [] l.kind = "colon" ->
            l.entry.file \o <<":", ToString(l.entry.line), ":", ToString(l.entry.column),
                              " - error ", l.entry.code, ":", SP>> \o l.entry.message
      [] l.kind = "continuation" -> <<"Did you mean to write it?">>
      [] l.kind = "summary" -> <<"Found 2 errors.">>
      [] l.kind = "note" -> <<"note", ":", " see above">>
      [] OTHER -> <<>>

\* The pieces of a text after its last colon.
AfterLastColon(text) ==
    LET last == Max({0} \cup {i \in 1..Len(text) : text[i] = ":"})
    IN SubSeq(text, last + 1, Len(text))

\* classify_ts_errors.py: each line is stripped and matched on its own
\* against ^(.*?)\((\d+),(\d+)\):\s*error\s+(TS\d+):\s*(.*?)$ .
parse_tsc_output(lines) ==
    LET hs == SelectSeq(lines, LAMBDA l : l.kind = "paren")
    IN [i \in 1..Len(hs) |->
          [file |-> hs[i].entry.file, line |-> hs[i].entry.line,
           column |-> hs[i].entry.column, code |-> hs[i].entry.code,
           message |-> hs[i].entry.message]]

\* extract_top_errors.py: ([^:]+):(\d+):(\d+) - error (TS\d+): (.+?)(?=\n|$)
\* is searched over the whole text.  The file group [^:]+ starts where the
\* previous match ended or right after the last colon before the header,
\* whichever is later, newlines included; prefix is the text it has
\* gathered before line i.
RECURSIVE TscErrorsFrom(_, _, _)
TscErrorsFrom(lines, i, prefix) ==
    IF i > Len(lines) THEN <<>>
    ELSE IF lines[i].kind = "colon"
    THEN LET e == lines[i].entry
             file_path == prefix \o (IF lines[i].indent THEN <<INDENT>> ELSE <<>>) \o e.file
         IN <<[file |-> file_path, line |-> e.line, col |-> e.column, code |-> e.code,
               message |-> e.message,
               full_line |-> file_path \o <<":", ToString(e.line), ":", ToString(e.column),
                                            " - error ", e.code, ":", SP>> \o e.message]>>
            \o TscErrorsFrom(lines, i + 1, <<NL>>)
    ELSE TscErrorsFrom(lines, i + 1,
            (IF \E k \in 1..Len(LineText(lines[i])) : LineText(lines[i])[k] = ":"
             THEN AfterLastColon(LineText(lines[i]))
             ELSE prefix \o LineText(lines[i])) \o <<NL>>)

parse_tsc_errors(lines) == TscErrorsFrom(lines, 1, <<>>)

\* The lookahead that ends a message, (?=\n\n|\n[^:\s]|\Z) in
\* analyze_stage2_errors.py and (?=\n\S|\n\n|\Z) in analyze_ts_errors.py,
\* fails before a line that is not blank and starts with white space (or,
\* in the first, with a colon): the message runs on over such a line.
RunsOn(script, l) ==
    /\ LineText(l) # <<>>
    /\ \/ LineText(l)[1] = INDENT
       \/ script = "analyze_stage2_errors" /\ LineText(l)[1] = ":"

\* The number of lines from line j on that the message runs on over.
RECURSIVE RunLength(_, _, _)
RunLength(script, lines, j) ==
    IF j > Len(lines) \/ ~RunsOn(script, lines[j]) THEN 0
    ELSE 1 + RunLength(script, lines, j + 1)

\* message.strip().replace('\n', ' ') over lines[i + 1 .. i + n].
RECURSIVE Stage2Message(_, _, _)
Stage2Message(lines, i, n) ==
    IF n = 0 THEN lines[i].entry.message
    ELSE Stage2Message(lines, i, n - 1) \o <<SP>> \o LineText(lines[i + n])

\* message.strip().replace('\n  ', ' ') over lines[i + 1 .. i + n].
RECURSIVE TsErrorsMessage(_, _, _)
TsErrorsMessage(lines, i, n) ==
    IF n = 0 THEN lines[i].entry.message
    ELSE TsErrorsMessage(lines, i, n - 1) \o <<SP>> \o Tail(LineText(lines[i + n]))

\* analyze_stage2_errors.py:
\* ([^:\n]+)\((\d+),(\d+)\):\s+error\s+(TS\d+):\s+(.+?)(?=\n\n|\n[^:\s]|\Z)
\* is searched over the whole text; the file group starts at the start of
\* the header's line.
RECURSIVE Stage2ErrorsFrom(_, _)
Stage2ErrorsFrom(lines, i) ==
    IF i > Len(lines) THEN <<>>
    ELSE IF lines[i].kind = "paren"
    THEN LET e == lines[i].entry
             n == RunLength("analyze_stage2_errors", lines, i + 1)
         IN <<[file |-> (IF lines[i].indent THEN <<INDENT>> ELSE <<>>) \o e.file,
               line |-> e.line, column |-> e.column, code |-> e.code,
               message |-> Stage2Message(lines, i, n)]>>
            \o Stage2ErrorsFrom(lines, i + 1 + n)
    ELSE Stage2ErrorsFrom(lines, i + 1)

\* The dictionary parse_stage2_errors returns.
parse_stage2_errors(lines) ==
    LET errors == Stage2ErrorsFrom(lines, 1)
        codes == {errors[i].code : i \in 1..Len(errors)}
        files == {errors[i].file : i \in 1..Len(errors)}
    IN [errors |-> [c \in codes |-> SelectSeq(errors, LAMBDA e : e.code = c)],
        counts |-> [c \in codes |-> Len(SelectSeq(errors, LAMBDA e : e.code = c))],
        file_counts |-> [f \in files |-> Len(SelectSeq(errors, LAMBDA e : e.file = f))],
        total_errors |-> Len(errors)]

\* analyze_ts_errors.py:
\* (\S+)\((\d+),(\d+)\): error (TS\d+): (.+?)(?=\n\S|\n\n|\Z)
RECURSIVE TsErrorsFrom(_, _)
TsErrorsFrom(lines, i) ==
    IF i > Len(lines) THEN <<>>
    ELSE IF lines[i].kind = "paren"
    THEN LET e == lines[i].entry
             n == RunLength("analyze_ts_errors", lines, i + 1)
         IN <<[file |-> e.file, line |-> e.line, column |-> e.column, code |-> e.code,
               message |-> TsErrorsMessage(lines, i, n)]>>
            \o TsErrorsFrom(lines, i + 1 + n)
    ELSE TsErrorsFrom(lines, i + 1)

parse_ts_errors(lines) == TsErrorsFrom(lines, 1)

\* ---- Runs of the parsers ----
Missing == [exists |-> FALSE, lines |-> <<>>]

PsInit ==
    /\ RwIdle /\ HooksIdle /\ ConflictsIdle /\ ClassifyIdle /\ BatchIdle /\ WriteIdle /\ LedgerIdle /\ ReportIdle /\ TopIdle /\ Ts7006Idle /\ TryCatchIdle
    /\ report \in {Missing} \cup [exists : {TRUE}, lines : SeqsUpTo(ReportLines, MaxReport)]
    /\ parsed = <<>>
    /\ psScript = "none"
    /\ psOutcome = "none"
    /\ psOutput = <<>>

\* parse_tsc_output prints a message and returns an empty dictionary when
\* the report does not exist.
RunParseTscOutput ==
    /\ psScript = "none"
    /\ parsed' = IF report.exists THEN parse_tsc_output(report.lines) ELSE <<>>
    /\ psScript' = "parse_tsc_output"
    /\ psOutcome' = "returned"
    /\ UNCHANGED <<tcVars, t7Vars, txVars, rpVars, lgVars, wrVars, bfVars, rwVars, hkVars, cfVars, clVars, report, psOutput>>

\* parse_stage2_errors prints a message and returns None when the report
\* does not exist.
RunParseStage2Errors ==
    /\ psScript = "none"
    /\ parsed' = IF report.exists THEN parse_stage2_errors(report.lines) ELSE "None"
    /\ psScript' = "parse_stage2_errors"
    /\ psOutcome' = "returned"
    /\ UNCHANGED <<tcVars, t7Vars, txVars, rpVars, lgVars, wrVars, bfVars, rwVars, hkVars, cfVars, clVars, report, psOutput>>

\* parse_tsc_errors opens the report without a test: open raises when it
\* does not exist.
RunParseTscErrors ==
    /\ psScript = "none"
    /\ IF report.exists
       THEN parsed' = parse_tsc_errors(report.lines) /\ psOutcome' = "returned"
       ELSE psOutcome' = "raised" /\ UNCHANGED parsed
    /\ psScript' = "parse_tsc_errors"
    /\ UNCHANGED <<tcVars, t7Vars, txVars, rpVars, lgVars, wrVars, bfVars, rwVars, hkVars, cfVars, clVars, report, psOutput>>

\* analyze_ts_errors.py: parse_ts_errors opens the report without a test.
RunParseTsErrors ==
    /\ psScript = "none"
    /\ IF report.exists
       THEN parsed' = parse_ts_errors(report.lines) /\ psOutcome' = "returned"
       ELSE psOutcome' = "raised" /\ UNCHANGED parsed
    /\ psScript' = "parse_ts_errors"
    /\ UNCHANGED <<tcVars, t7Vars, txVars, rpVars, lgVars, wrVars, bfVars, rwVars, hkVars, cfVars, clVars, report, psOutput>>

\* classify_ts_errors.py: main parses the report, classifies what the parser
\* returned, writes the buckets and the analysis report, and returns.
RunClassifyTsErrorsMain ==
    /\ psScript = "none"
    /\ \E errors \in {IF report.exists THEN parse_tsc_output(report.lines) ELSE <<>>} :
          /\ parsed' = errors
          /\ psOutput' = classify_errors(errors)
    /\ psScript' = "classify_ts_errors"
    /\ psOutcome' = "success"
    /\ UNCHANGED <<tcVars, t7Vars, txVars, rpVars, lgVars, wrVars, bfVars, rwVars, hkVars, cfVars, clVars, report>>

PsNext ==
    \/ RunParseTscOutput
    \/ RunParseStage2Errors
    \/ RunParseTscErrors
    \/ RunParseTsErrors
    \/ RunClassifyTsErrorsMain

SpecParse == PsInit /\ [][PsNext]_vars

\* The diagnostics a parser returned, and how many it reported.
ParsedErrors ==
    IF psOutcome # "returned" \/ ~report.exists THEN {}
    ELSE IF psScript = "parse_stage2_errors"
    THEN UNION {{parsed.errors[c][i] : i \in 1..Len(parsed.errors[c])} : c \in DOMAIN parsed.errors}
    ELSE {parsed[i] : i \in 1..Len(parsed)}

ParsedCount ==
    IF psScript = "parse_stage2_errors" THEN parsed.total_errors ELSE Len(parsed)

\* The well-formed entries of a report: its header lines, in either form.
Entries(lines) == SelectSeq(lines, IsHeader)

\* C13: a parser run over a report of N well-formed entries, in either
\* header form, interleaved with lines that match no header form returns
\* without raising and returns exactly N diagnostics, duplicates included;
\* a report with no entry gives an empty result.
C13_ParserReturnsEveryEntry ==
    (/\ psScript \in {"parse_tsc_output", "parse_stage2_errors", "parse_tsc_errors"}
     /\ report.exists)
        => /\ psOutcome = "returned"
           /\ ParsedCount = Len(Entries(report.lines))

\* The words of a text: its pieces other than white space.
Words(text) == SelectSeq(text, LAMBDA piece : piece \notin {SP, INDENT})

\* The lines after line i up to the first blank line, the first header or
\* the end of the report.
RECURSIVE ContinuationOf(_, _)
ContinuationOf(lines, j) ==
    IF j > Len(lines) \/ lines[j].kind = "blank" \/ IsHeader(lines[j]) THEN <<>>
    ELSE LineText(lines[j]) \o ContinuationOf(lines, j + 1)

\* C14: the message of a diagnostic is the message of its header joined
\* with the lines that follow it up to the first blank line, the first
\* header or the end of the report, and holds no text of a later diagnostic
\* or of a line after a blank line.
C14_MessageSpansContinuationLines ==
    (/\ psScript \in {"parse_tsc_output", "parse_stage2_errors", "parse_ts_errors"}
     /\ report.exists)
        => {Words(e.message) : e \in ParsedErrors}
             = {Words(report.lines[i].entry.message \o ContinuationOf(report.lines, i + 1)) :
                    i \in {k \in 1..Len(report.lines) : report.lines[k].kind = "paren"}}

\* C15: a run of classify_ts_errors.py over a missing report ends in an
\* error and writes no classification output, while a run over a report
\* with no diagnostic ends in success.
C15_MissingReportIsFatal ==
    psScript = "classify_ts_errors" =>
        IF report.exists
        THEN Entries(report.lines) = <<>> => psOutcome = "success"
        ELSE psOutcome \in {"raised", "error"} /\ psOutput = <<>>

(***************************************************************************)
(* Failures of a rule and of a file.                                       *)
(***************************************************************************)
\* What the rules of resolve_all_conflicts that do not raise make of a
\* text: each conflict whose replacement raises is left as it is.
RECURSIVE IsolatedLoop(_, _)
IsolatedLoop(conflicts, text) ==
    IF conflicts = <<>> THEN text
    ELSE IsolatedLoop(Tail(conflicts),
            IF HasTok(ChooseAll(CleanHead(Head(conflicts).head), Head(conflicts).main),
                      BadEscapeToks)
            THEN text
            ELSE ReplaceConflict(Head(conflicts),
                    ChooseAll(CleanHead(Head(conflicts).head), Head(conflicts).main),
                    text).content)

\* C17: when a rule raises on a file, the remaining rules are still applied
\* to the file and the changes of the rules that succeeded are written:
\* after resolve_all_conflicts has reported an error for a file, the file
\* holds what the rules that did not raise make of it.
C17_FailureIsIsolatedToTheRule ==
    (cfScript = "all" /\ cfOutcome = "error")
        => cfDisk = IsolatedLoop(FindConflicts(CfSubAll(all_patterns, Flatten(cfBlocks)), 1),
                                 CfSubAll(all_patterns, Flatten(cfBlocks)))

\* ---- Batch runs ----
MaxFiles == 3

\* A file of a batch, by what happens when a script gets to it: whether it
\* exists, which step raises on it (reading it, transforming it, writing
\* it) and whether the transformation changes its content.  Only a changed
\* file is written, and only the re.sub of resolve_all_conflicts with a text
\* as its template raises while transforming.
BatchFiles ==
    { [exists |-> FALSE, fails |-> "none", changes |-> FALSE],
      [exists |-> TRUE, fails |-> "none", changes |-> FALSE],
      [exists |-> TRUE, fails |-> "none", changes |-> TRUE],
      [exists |-> TRUE, fails |-> "read", changes |-> FALSE],
      [exists |-> TRUE, fails |-> "transform", changes |-> TRUE],
      [exists |-> TRUE, fails |-> "write", changes |-> TRUE] }

BatchScripts == {"fix_malformed_comments", "resolve_conflicts", "resolve_all_conflicts"}

\* The script raises while it processes file f.
Raises(script, f) ==
    \/ f.fails \in {"read", "write"}
    \/ f.fails = "transform" /\ script = "resolve_all_conflicts"

\* What the body of the loop makes of file f: a file that is not there is
\* not listed by the glob of fix_malformed_comments and is passed over by
\* the other two; only resolve_all_conflicts has a try block, so an
\* exception leaves the loop of the other two.
LoopBody(script, f) ==
    IF ~f.exists THEN "skipped"
    ELSE IF Raises(script, f)
    THEN IF script = "resolve_all_conflicts" THEN "error" ELSE "raise"
    ELSE IF f.changes THEN "changed" ELSE "unchanged"

\* for file_path in ...: the loop from file i on.
RECURSIVE BatchLoop(_, _, _, _)
BatchLoop(script, files, i, st) ==
    IF i > Len(files) THEN [st EXCEPT !.status = "completed"]
    ELSE IF LoopBody(script, files[i]) = "raise" THEN [st EXCEPT !.status = "aborted"]
    ELSE BatchLoop(script, files, i + 1,
            [st EXCEPT !.log = Append(@, LoopBody(script, files[i])),
                       !.count = IF LoopBody(script, files[i]) = "changed" THEN @ + 1 ELSE @])

BfInit ==
    /\ RwIdle /\ HooksIdle /\ ConflictsIdle /\ ClassifyIdle /\ ParseIdle /\ WriteIdle /\ LedgerIdle /\ ReportIdle /\ TopIdle /\ Ts7006Idle /\ TryCatchIdle
    /\ bfFiles \in SeqsUpTo(BatchFiles, MaxFiles)
    /\ bfLog = <<>>
    /\ bfScript = "none"
    /\ bfStatus = "none"
    /\ bfCount = 0

RunBatch(script) ==
    /\ bfScript = "none"
    /\ \E r \in {BatchLoop(script, bfFiles, 1, [log |-> <<>>, count |-> 0, status |-> "none"])} :
          /\ bfLog' = r.log
          /\ bfCount' = r.count
          /\ bfStatus' = r.status
    /\ bfScript' = script
    /\ UNCHANGED <<tcVars, t7Vars, txVars, rpVars, lgVars, rwVars, hkVars, cfVars, clVars, psVars, wrVars, bfFiles>>

RunFixMalformedComments == RunBatch("fix_malformed_comments")

RunResolveConflicts == RunBatch("resolve_conflicts")

RunResolveAllConflicts == RunBatch("resolve_all_conflicts")

BfNext ==
    \/ RunFixMalformedComments
    \/ RunResolveConflicts
    \/ RunResolveAllConflicts

SpecBatch == BfInit /\ [][BfNext]_vars

\* C16: one bad file never aborts a batch: the run completes, every file of
\* the batch is reached, and a file on which reading, transforming or
\* writing raises is reported as an error and skipped.
C16_BadFileNeverAbortsBatch ==
    bfScript # "none" =>
        /\ bfStatus = "completed"
        /\ Len(bfLog) = Len(bfFiles)
        /\ \A i \in 1..Len(bfFiles) :
              (bfFiles[i].exists /\ Raises(bfScript, bfFiles[i])) => bfLog[i] = "error"

\* ---- process_file of reduce-any-types.py, write by write ----
\* The first loops of process_file over a file holding s.
Counted(s) ==
    CountAll(additional_replacements,
        CountAll(TYPE_REPLACEMENTS, [content |-> s, changes |-> 0, imports |-> FALSE]))

WrInit ==
    /\ RwIdle /\ HooksIdle /\ ConflictsIdle /\ ClassifyIdle /\ ParseIdle /\ BatchIdle /\ LedgerIdle /\ ReportIdle /\ TopIdle /\ Ts7006Idle /\ TryCatchIdle
    /\ wrFile \in AnyInputs
    /\ wrDisk = wrFile
    /\ wrPc = "start"

\* if imports_needed: add_imports_to_file(file_path, ...) reads the file,
\* adds the import statement and writes the file.
AddImports ==
    /\ wrPc = "start"
    /\ \E st \in {Counted(wrFile)} : st.content # wrFile /\ st.imports
    /\ wrDisk' = process_file(wrFile).imported
    /\ wrPc' = "imports added"
    /\ UNCHANGED <<tcVars, t7Vars, txVars, rpVars, lgVars, rwVars, hkVars, cfVars, clVars, psVars, bfVars, wrFile>>

\* The replacements are applied to the content (read again when imports
\* were added) and the file is written.
WriteContent ==
    /\ \/ wrPc = "imports added"
       \/ wrPc = "start" /\ \E st \in {Counted(wrFile)} : st.content # wrFile /\ ~st.imports
    /\ wrDisk' = process_file(wrFile).content
    /\ wrPc' = "done"
    /\ UNCHANGED <<tcVars, t7Vars, txVars, rpVars, lgVars, rwVars, hkVars, cfVars, clVars, psVars, bfVars, wrFile>>

\* No changes needed: the file is not written.
NoChanges ==
    /\ wrPc = "start"
    /\ Counted(wrFile).content = wrFile
    /\ wrPc' = "done"
    /\ UNCHANGED <<tcVars, t7Vars, txVars, rpVars, lgVars, rwVars, hkVars, cfVars, clVars, psVars, bfVars, wrFile, wrDisk>>

\* The run is stopped, or the next step raises and the except block of
\* process_file returns: the file stays as the last write left it.
Stop ==
    /\ wrPc \in {"start", "imports added"}
    /\ wrPc' = "stopped"
    /\ UNCHANGED <<tcVars, t7Vars, txVars, rpVars, lgVars, rwVars, hkVars, cfVars, clVars, psVars, bfVars, wrFile, wrDisk>>

WrNext ==
    \/ AddImports
    \/ WriteContent
    \/ NoChanges
    \/ Stop

SpecWrite == WrInit /\ [][WrNext]_vars

\* C18: writing is all-or-nothing per file: wherever process_file stands or
\* is stopped, the file on disk holds its original content or the fully
\* transformed content.
C18_WriteIsAllOrNothing ==
    wrPc # "none" => wrDisk \in {wrFile, process_file(wrFile).content}

(***************************************************************************)
(* The ledgers, call by call.  process_hooks_violations analyzes the       *)
(* missing dependencies of a violation one by one and then calls           *)
(* add_manual_review_comment; the try/catch cleaner processes its files    *)
(* one by one.                                                             *)
(***************************************************************************)
LedgerViolations ==
    {[line |-> l, deps |-> d, ok |-> TRUE] : l \in 1..MaxHookLines, d \in {<<FOO>>, <<FOO, SETCOUNT>>}}
      \cup {[line |-> 1, deps |-> <<FOO>>, ok |-> FALSE]}

\* A file of the cleaner: the useless patterns detect_useless_patterns
\* finds in it (fix_pattern changes the content for each of them), and the
\* step that raises on it.
CleanerFiles ==
    [file : {"src/a.ts"},
     patterns : {<<>>, <<"console_log_throw">>, <<"simple_throw", "console_log_throw">>},
     fails : {"none", "read", "write"}]

\* UselessTryCatchCleaner.__init__
NewCleaner ==
    [changes_log |-> <<>>, files_processed |-> 0, patterns_found |-> 0, patterns_fixed |-> 0]

\* A run starts with empty ledgers: the hooks script has read the file and
\* sorted its violations, or the cleaner has found its files.
LgInit ==
    /\ RwIdle /\ ConflictsIdle /\ ClassifyIdle /\ ParseIdle /\ BatchIdle /\ WriteIdle /\ ReportIdle /\ TopIdle /\ Ts7006Idle /\ TryCatchIdle
    /\ dep = <<>> /\ verdict = "none"
    /\ manual_review_items = <<>>
    /\ fixes_applied = 0 /\ hkDone = FALSE
    /\ cleaner = NewCleaner
    /\ \/ /\ hkDisk \in SeqsUpTo(HookItems, MaxHookLines)
          /\ violations \in SeqsUpTo(LedgerViolations, MaxViolations)
          /\ content = hkDisk
          /\ lgQueue = SortedByLine(violations)
          /\ lgIdx = 1
          /\ lgFiles = <<>>
       \/ /\ hkDisk = <<>> /\ violations = <<>> /\ content = <<>>
          /\ lgQueue = <<>>
          /\ lgIdx = 0
          /\ lgFiles \in SeqsUpTo(CleanerFiles, MaxFiles)

\* A decision function that is not pure: it records the names it finds
\* unsafe in the ledger.
AnalyzeDependencyAndRecord ==
    /\ lgIdx >= 1 /\ lgQueue # <<>>
    /\ Head(lgQueue).ok /\ lgIdx <= Len(Head(lgQueue).deps)
    /\ dep' = Head(lgQueue).deps[lgIdx]
    /\ verdict' = IF is_safe_dependency(Head(lgQueue).deps[lgIdx], content)
                  THEN "SAFE" ELSE "UNSAFE"
    /\ manual_review_items' =
          IF is_safe_dependency(Head(lgQueue).deps[lgIdx], content)
          THEN manual_review_items
          ELSE Append(manual_review_items,
                      [line |-> Head(lgQueue).line, dependencies |-> Head(lgQueue).deps,
                       reason |-> Reason])
    /\ lgIdx' = lgIdx + 1
    /\ UNCHANGED <<tcVars, t7Vars, txVars, rpVars, rwVars, cfVars, clVars, psVars, bfVars, wrVars, content, hkDisk,
                   violations, fixes_applied, hkDone, lgQueue, lgFiles,
                   cleaner>>

\* for dep in missing_deps: is_safe_dependency(dep, file_content), on the
\* content read when process_hooks_violations started.
AnalyzeDependency ==
    /\ lgIdx >= 1 /\ lgQueue # <<>>
    /\ Head(lgQueue).ok /\ lgIdx <= Len(Head(lgQueue).deps)
    /\ dep' = Head(lgQueue).deps[lgIdx]
    /\ verdict' = IF is_safe_dependency(Head(lgQueue).deps[lgIdx], content)
                  THEN "SAFE" ELSE "UNSAFE"
    /\ lgIdx' = lgIdx + 1
    /\ UNCHANGED <<tcVars, t7Vars, txVars, rpVars, rwVars, cfVars, clVars, psVars, bfVars, wrVars, content, hkDisk,
                   violations, manual_review_items, fixes_applied, hkDone, lgQueue, lgFiles,
                   cleaner>>

\* The rest of the loop body for the violation: it is skipped when it has
\* no details, and add_manual_review_comment is called otherwise.
HandleViolation ==
    /\ lgIdx >= 1 /\ lgQueue # <<>>
    /\ Head(lgQueue).ok => lgIdx > Len(Head(lgQueue).deps)
    /\ \E st \in {ProcessViolations(<<Head(lgQueue)>>, content,
                    [disk |-> hkDisk, items |-> manual_review_items,
                     fixes |-> fixes_applied])} :
          /\ hkDisk' = st.disk
          /\ manual_review_items' = st.items
          /\ fixes_applied' = st.fixes
    /\ lgQueue' = Tail(lgQueue)
    /\ lgIdx' = 1
    /\ hkDone' = (Tail(lgQueue) = <<>>)
    /\ UNCHANGED <<tcVars, t7Vars, txVars, rpVars, rwVars, cfVars, clVars, psVars, bfVars, wrVars, content, dep, verdict,
                   violations, lgFiles, cleaner>>

\* UselessTryCatchCleaner.process_file on the next file, and the count
\* run_cleanup keeps of the files it returned True for.
CleanerProcessFile ==
    /\ lgFiles # <<>>
    /\ cleaner' =
          IF Head(lgFiles).fails = "read" THEN cleaner
          ELSE IF Head(lgFiles).patterns = <<>> \/ Head(lgFiles).fails = "write"
          THEN [cleaner EXCEPT !.patterns_found = @ + Len(Head(lgFiles).patterns)]
          ELSE [cleaner EXCEPT
                  !.patterns_found = @ + Len(Head(lgFiles).patterns),
                  !.patterns_fixed = @ + Len(Head(lgFiles).patterns),
                  !.changes_log = Append(@, [file |-> Head(lgFiles).file,
                                             patterns_fixed |-> Len(Head(lgFiles).patterns),
                                             patterns |-> Head(lgFiles).patterns]),
                  !.files_processed = @ + 1]
    /\ lgFiles' = Tail(lgFiles)
    /\ UNCHANGED <<tcVars, t7Vars, txVars, rpVars, rwVars, hkVars, cfVars, clVars, psVars, bfVars, wrVars, lgQueue, lgIdx>>

LgNext ==
    \/ AnalyzeDependency
    \/ HandleViolation
    \/ CleanerProcessFile

SpecLedger == LgInit /\ [][LgNext]_vars

\* The new ledger is the old one, or the old one with one entry more at
\* its end.
AppendsAtMostOne(old, new) ==
    \/ new = old
    \/ Len(new) = Len(old) + 1 /\ SubSeq(new, 1, Len(old)) = old

\* C19: the ledgers are append-only: manual_review_items and the cleaner's
\* changes_log are empty when a run starts, and every step leaves each of
\* them as it is or appends one entry at its end, so that no entry is ever
\* modified, reordered or removed.
C19_LedgerIsAppendOnly ==
    /\ manual_review_items = <<>> /\ cleaner.changes_log = <<>>
    /\ [][/\ AppendsAtMostOne(manual_review_items, manual_review_items')
          /\ AppendsAtMostOne(cleaner.changes_log, cleaner'.changes_log)]_vars

\* C19's case: a second item has been appended to a ledger that held one.
C19_Witness ==
    /\ Len(manual_review_items) = 2
    /\ manual_review_items[1] # manual_review_items[2]
    /\ lgQueue = <<>>

\* C20: the safety decision is pure: a call of is_safe_dependency changes
\* nothing but the caller's record of the name and the verdict, and its
\* result is a function of the name and the content it was given, whatever
\* the file on disk and the ledger have become; the file and the ledger
\* change only in the step that calls add_manual_review_comment.
C20_SafetyDecisionIsPure ==
    [][/\ lgIdx' = lgIdx + 1
            => /\ UNCHANGED <<rwVars, cfVars, clVars, psVars, bfVars, wrVars, rpVars, txVars, t7Vars, tcVars,
                              content, hkDisk,
                              violations, manual_review_items, fixes_applied, hkDone,
                              lgQueue, lgFiles, cleaner>>
               /\ verdict' = IF is_safe_dependency(dep', content) THEN "SAFE" ELSE "UNSAFE"
       /\ (hkDisk' # hkDisk \/ manual_review_items' # manual_review_items)
            => lgQueue # <<>> /\ lgQueue' = Tail(lgQueue) /\ lgIdx' = 1]_vars

\* C20's case: a name has been analyzed after the file and the ledger were
\* changed for an earlier violation.
C20_Witness ==
    /\ lgIdx = 3 /\ verdict = "UNSAFE" /\ dep = SETCOUNT
    /\ Len(manual_review_items) = 1
    /\ hkDisk # content

(***************************************************************************)
(* Files without a conflict region.                                        *)
(***************************************************************************)
\* No conflict region starts in the text: it has no start marker.  (What
\* becomes of a start marker without its separator or end marker is the
\* matter of the malformed sequences above.)
NoRegion(s) == ~HasTok(s, {HEADM})

RECURSIVE FirstSeen(_)
FirstSeen(keys) ==
    IF keys = <<>> THEN <<>>
    ELSE LET init == FirstSeen(SubSeq(keys, 1, Len(keys) - 1))
             last == keys[Len(keys)]
         IN  IF \E i \in DOMAIN init : init[i] = last THEN init ELSE Append(init, last)

\* items() of a Counter (or of the buckets) fed with the keys in order.
CountItems(keys) ==
    LET seen == FirstSeen(keys)
    IN  [i \in DOMAIN seen |->
            [key |-> seen[i], count |-> Cardinality({j \in DOMAIN keys : keys[j] = seen[i]})]]

\* sorted(items, key=lambda x: x[1], reverse=True): the place of an item is
\* behind the items of a greater count and behind the equal ones before it.
PlaceByCount(items, i) ==
    1 + Cardinality({j \in DOMAIN items :
            \/ items[j].count > items[i].count
            \/ items[j].count = items[i].count /\ j < i})

SortedByCount(items) ==
    LET place == [i \in DOMAIN items |-> PlaceByCount(items, i)]
    IN  [p \in DOMAIN items |-> items[CHOOSE i \in DOMAIN items : place[i] = p]]

\* items[:n]
Top(items, n) == SubSeq(items, 1, Min({n, Len(items)}))

\* format_file_path, and the replace of analyze_results: the checkout
\* prefix is removed from the path.
format_file_path(file_path) ==
    IF file_path = ESLINT_A THEN "src/a.ts"
    ELSE IF file_path = ESLINT_B THEN "src/b.ts"
    ELSE file_path

\* generate_stage2_report: error codes by count, and the ten files with the
\* most errors.
generate_stage2_report(errors) ==
    <<SortedByCount(CountItems([i \in DOMAIN errors |-> errors[i].code])),
      Top(SortedByCount(CountItems([i \in DOMAIN errors |-> errors[i].file])), 10)>>

\* create_error_buckets and create_markdown_report: categories by count
\* (the messages of the model hold none of the words classify_ts_error tests).
create_markdown_report(errors) ==
    <<SortedByCount(CountItems([i \in DOMAIN errors |->
            classify_ts_error(<<errors[i].file>>, errors[i].code, <<>>)]))>>

\* errorCount and warningCount as ESLint writes them: the messages of
\* severity 2 and of severity 1.
CountSeverity(file_result, severity) ==
    Cardinality({i \in DOMAIN file_result.messages : file_result.messages[i].severity = severity})

\* stats['issues_by_file'] with the total the report computes: the files
\* with at least one issue, in the order of the results.
IssuesByFile(results) ==
    LET with_issues == SelectSeq(results, LAMBDA r : Len(r.messages) > 0)
    IN  [i \in DOMAIN with_issues |->
            [key |-> format_file_path(with_issues[i].filePath),
             count |-> CountSeverity(with_issues[i], 2) + CountSeverity(with_issues[i], 1)]]

\* stats['top_issues'] before the sort: every message of every file result,
\* in the order of the results.
RECURSIVE CollectIssues(_)
CollectIssues(results) ==
    IF results = <<>> THEN <<>>
    ELSE LET r == results[1]
         IN  [i \in DOMAIN r.messages |->
                 [file |-> format_file_path(r.filePath),
                  severity |-> r.messages[i].severity,
                  rule |-> r.messages[i].ruleId]]
             \o CollectIssues(Tail(results))

\* The key of the sort: (severity, rule, file), ascending.
IssueKeyLess(x, y) ==
    \/ x.severity < y.severity
    \/ x.severity = y.severity /\ LexLess(x.rule, y.rule)
    \/ x.severity = y.severity /\ x.rule = y.rule /\ LexLess(x.file, y.file)

SortedIssues(issues) ==
    LET place == [i \in DOMAIN issues |->
                    1 + Cardinality({j \in DOMAIN issues :
                            \/ IssueKeyLess(issues[j], issues[i])
                            \/ ~IssueKeyLess(issues[i], issues[j]) /\ j < i})]
    IN  [p \in DOMAIN issues |-> issues[CHOOSE i \in DOMAIN issues : place[i] = p]]

\* analyze_results: the sorted issues.
analyze_results(results) == SortedIssues(CollectIssues(results))

ReportCodes == {"TS2724", "TS7006"}
ReportFiles == {"src/a.ts", "src/b.ts"}
TscDiagnostics == {[file |-> f, code |-> c] : f \in ReportFiles, c \in ReportCodes}

\* The messages of a file result: a run of warnings and a run of errors,
\* in either order.
WARNING == [severity |-> 1, ruleId |-> "prefer-const"]
ERROR == [severity |-> 2, ruleId |-> "no-undef"]
RunLengths == {0, 1, 50}
Repeat(m, n) == [i \in 1..n |-> m]
MessageLists ==
    {Repeat(WARNING, w) \o Repeat(ERROR, e) : w \in RunLengths, e \in {0, 1}}
        \cup {Repeat(ERROR, e) \o Repeat(WARNING, w) : w \in RunLengths, e \in {0, 1}}

EslintResults ==
    {<<>>}
        \cup {<<[filePath |-> f, messages |-> m]>> : f \in {ESLINT_A, ESLINT_B}, m \in MessageLists}
        \cup {<<[filePath |-> f, messages |-> m], [filePath |-> g, messages |-> n]>> :
                f \in {ESLINT_A}, g \in {ESLINT_B}, m \in MessageLists, n \in MessageLists}
        \cup {<<[filePath |-> g, messages |-> m], [filePath |-> f, messages |-> n]>> :
                f \in {ESLINT_A}, g \in {ESLINT_B}, m \in MessageLists, n \in MessageLists}

RpInit ==
    /\ RwIdle /\ HooksIdle /\ ConflictsIdle /\ ClassifyIdle /\ ParseIdle /\ BatchIdle /\ WriteIdle /\ LedgerIdle /\ TopIdle /\ Ts7006Idle /\ TryCatchIdle
    /\ \/ \E errors \in SeqsUpTo(TscDiagnostics, MaxReport) :
            rpInput = [kind |-> "tsc", errors |-> errors]
       \/ \E results \in EslintResults :
            rpInput = [kind |-> "eslint", results |-> results]
    /\ rpScript = "none"
    /\ rpOutput = <<>>

\* analyze_stage2_errors.py main: the parsed diagnostics are counted by
\* code and by file and the report lists both.
RunGenerateStage2Report ==
    /\ rpScript = "none" /\ rpInput.kind = "tsc"
    /\ rpOutput' = [listings |-> generate_stage2_report(rpInput.errors), top_issues |-> <<>>]
    /\ rpScript' = "analyze_stage2_errors"
    /\ UNCHANGED <<tcVars, t7Vars, txVars, rwVars, hkVars, cfVars, clVars, psVars, bfVars, wrVars, lgVars, rpInput>>

\* classify_ts_errors_1b.py main.
RunCreateMarkdownReport ==
    /\ rpScript = "none" /\ rpInput.kind = "tsc"
    /\ rpOutput' = [listings |-> create_markdown_report(rpInput.errors), top_issues |-> <<>>]
    /\ rpScript' = "classify_ts_errors_1b"
    /\ UNCHANGED <<tcVars, t7Vars, txVars, rwVars, hkVars, cfVars, clVars, psVars, bfVars, wrVars, lgVars, rpInput>>

\* generate_final_report.py generate_report: the statistics of the "after"
\* results, the 50 issues the report shows and the 20 files with the most
\* issues.
RunGenerateReport ==
    /\ rpScript = "none" /\ rpInput.kind = "eslint"
    /\ rpOutput' = [listings |-> <<Top(SortedByCount(IssuesByFile(rpInput.results)), 20)>>,
                    top_issues |-> analyze_results(rpInput.results)]
    /\ rpScript' = "generate_final_report"
    /\ UNCHANGED <<tcVars, t7Vars, txVars, rwVars, hkVars, cfVars, clVars, psVars, bfVars, wrVars, lgVars, rpInput>>

RpNext ==
    \/ RunGenerateStage2Report
    \/ RunCreateMarkdownReport
    \/ RunGenerateReport

SpecReport == RpInit /\ [][RpNext]_vars

\* A listing in descending order of count, equal counts in lexicographic
\* order of the name.
Listed(listing) ==
    \A i, j \in DOMAIN listing :
        i < j => \/ listing[i].count > listing[j].count
                 \/ listing[i].count = listing[j].count
                        /\ LexLess(listing[i].key, listing[j].key)

\* C22: every listing of a report (error codes, categories or files by
\* count) is in descending order of count, and groups of equal count are in
\* lexicographic order of the name, whatever the order in which the
\* diagnostics were parsed.
C22_ListingIsByCountThenName ==
    rpScript # "none" =>
        \A k \in DOMAIN rpOutput.listings : Listed(rpOutput.listings[k])

\* C28: analyze_results orders top_issues with the errors (severity 2)
\* before the warnings (severity 1), so the 50 issues the report shows never
\* hold a warning while an error is left out.
C28_ErrorsBeforeWarnings ==
    rpScript = "generate_final_report" =>
        /\ \A i, j \in DOMAIN rpOutput.top_issues :
                (rpOutput.top_issues[i].severity = 1 /\ rpOutput.top_issues[j].severity = 2)
                    => j < i
        /\ \A i \in DOMAIN Top(rpOutput.top_issues, 50) :
                rpOutput.top_issues[i].severity = 1
                    => \A j \in DOMAIN rpOutput.top_issues :
                            rpOutput.top_issues[j].severity = 2 => j <= 50

\* The place of a category among the keys of the dictionary that
\* categorize_and_prioritize_errors filled: the order of first insertion.
CategoryPlace(category) ==
    LET keys == FirstSeen([i \in DOMAIN batch |-> batch[i].category])
    IN  CHOOSE k \in DOMAIN keys : keys[k] = category

\* C23 as the specification words it: the prioritised diagnostics are
\* ordered most urgent first, equal ones by category insertion order, then
\* by file path, then by line number.
C23_TiesByCategoryInsertionOrder ==
    clScript = "top_errors" =>
        \A i, j \in DOMAIN top_errors.errors :
            i < j =>
                LET x == top_errors.errors[i]
                    y == top_errors.errors[j]
                IN  \/ x.severity > y.severity
                    \/ /\ x.severity = y.severity
                       /\ \/ CategoryPlace(x.category) < CategoryPlace(y.category)
                          \/ /\ x.category = y.category
                             /\ \/ LexLess(x.file, y.file)
                                \/ x.file = y.file /\ x.line <= y.line

\* C23: the list extract_top_errors returns is ordered by severity, the
\* most severe first; diagnostics of equal severity are ordered by file
\* path and then by line number, and the category takes no part in the
\* order.
C23_BySeverityThenFileThenLine ==
    clScript = "top_errors" =>
        \A i, j \in DOMAIN top_errors.errors :
            i < j =>
                LET x == top_errors.errors[i]
                    y == top_errors.errors[j]
                IN  \/ x.severity > y.severity
                    \/ /\ x.severity = y.severity
                       /\ \/ LexLess(x.file, y.file)
                          \/ x.file = y.file /\ x.line <= y.line

C23_Witness ==
    /\ clScript = "top_errors"
    /\ Len(top_errors.errors) = 2
    /\ top_errors.errors[1].severity = top_errors.errors[2].severity
    /\ top_errors.errors[1].category # top_errors.errors[2].category
    /\ CategoryPlace(top_errors.errors[2].category) < CategoryPlace(top_errors.errors[1].category)
    /\ top_errors.errors # batch

\* C27: the list extract_top_errors returns is deduplicated: no two of its
\* diagnostics have the same file, the same code and lines in the same
\* block of ten lines, whatever the input list and the limit.
C27_TopErrorsAreDeduplicated ==
    clScript = "top_errors" =>
        \A i, j \in DOMAIN top_errors.errors :
            i < j =>
                LET x == top_errors.errors[i]
                    y == top_errors.errors[j]
                IN  ~(/\ x.file = y.file
                      /\ x.code = y.code
                      /\ x.line \div 10 = y.line \div 10)

\* The header form a parser reads.
FormOf(script) == IF script = "parse_tsc_errors" THEN "colon" ELSE "paren"

\* C24: for a report of well-formed entries in the parser's own header
\* form, every diagnostic the parser returns has the file, line, column and
\* code of one entry's own header: the file of the first and of every later
\* diagnostic holds nothing of a preceding line and no line break.
C24_FieldsAreTheHeadersOwn ==
    (/\ psScript \in {"parse_tsc_errors", "parse_stage2_errors"}
     /\ psOutcome = "returned"
     /\ report.exists
     /\ \A k \in DOMAIN report.lines :
            report.lines[k].kind = FormOf(psScript) /\ ~report.lines[k].indent)
        => \A d \in ParsedErrors :
              \E k \in DOMAIN report.lines :
                  /\ d.file = report.lines[k].entry.file
                  /\ d.line = report.lines[k].entry.line
                  /\ d.code = report.lines[k].entry.code
                  /\ report.lines[k].entry.column
                        = (IF psScript = "parse_tsc_errors" THEN d.col ELSE d.column)

\* The text out is the text of the blocks with each region replaced by some
\* text of its own and every other block as it was.
RECURSIVE OnlyRegionsChanged(_, _)
OnlyRegionsChanged(blocks, out) ==
    IF blocks = <<>> THEN out = <<>>
    ELSE IF Head(blocks).kind = "region"
    THEN \E k \in 0..Len(out) :
            OnlyRegionsChanged(Tail(blocks), SubSeq(out, k + 1, Len(out)))
    ELSE LET text == BlockText(Head(blocks))
         IN  /\ Len(out) >= Len(text)
             /\ SubSeq(out, 1, Len(text)) = text
             /\ OnlyRegionsChanged(Tail(blocks), SubSeq(out, Len(text) + 1, Len(out)))

\* C25: resolving a file changes only its marked regions: each region is
\* replaced by its chosen text, and every character outside the regions,
\* the lines that hold nothing but '=======' and the text between two
\* regions included, is the same and in the same order in the written file.
C25_OnlyRegionsChange ==
    (/\ cfScript \in {"all", "file"}
     /\ cfOutcome \in {"resolved", "unchanged"}
     /\ \A k \in DOMAIN cfBlocks : cfBlocks[k].kind \in {"region", "plain", "loneSep"})
        => OnlyRegionsChanged(cfBlocks, cfDisk)

\* The lines of a file that hold the annotation.
DisableLines(f) == {k \in DOMAIN f : f[k].k = "disable"}

\* C26: after process_hooks_violations has handled the violations of a
\* file, every reported hook line has exactly one annotation, directly
\* above it, and exactly one ledger entry, also when two violations report
\* the same line; and a call of add_manual_review_comment for a hook line
\* that has the annotation directly above it changes neither the file nor
\* the ledger.
C26_OneAnnotationPerHookLine ==
    /\ (/\ hkDone /\ violations # <<>>
        /\ DisableLines(content) = {}
        /\ \A i \in DOMAIN violations :
              /\ violations[i].ok
              /\ violations[i].line \in DOMAIN content
              /\ content[violations[i].line].k = "hook")
          => LET reported == {violations[i].line : i \in DOMAIN violations}
             IN  /\ \A l \in reported :
                       Cardinality({i \in DOMAIN manual_review_items :
                                       manual_review_items[i].line = l}) = 1
                 /\ Cardinality(DisableLines(hkDisk)) = Cardinality(reported)
                 /\ \A k \in DisableLines(hkDisk) :
                       k < Len(hkDisk) /\ hkDisk[k + 1].k = "hook"
    /\ (/\ hkDone /\ Len(violations) = 1
        /\ violations[1].ok
        /\ violations[1].line \in DOMAIN content
        /\ violations[1].line > 1
        /\ content[violations[1].line].k = "hook"
        /\ content[violations[1].line - 1].k = "disable")
          => hkDisk = content /\ manual_review_items = <<>>

(***************************************************************************)
(* fix_ts7006.py.  A path is a sequence of pieces, the directory first;    *)
(* a line of the report carries the path it starts with, the line number,  *)
(* the code and, for TS7006, the parameter named in the message.  A line   *)
(* of the file is a plain line or a callback "f(p => ..." with parameter   *)
(* p, annotated or not.                                                    *)
(***************************************************************************)
MaxTsLines == 2
MaxTsErrors == 2

APP_TSX == <<"src/", "App.tsx">>
OtherPaths ==
    {<<"src/components/", "App.tsx">>, <<"src/", "My", "App.tsx">>, <<"src/", "Other.tsx">>}

\* Path(...).name: the pieces after the directory.
PathName(path) == Tail(path)

\* sub in text, on pieces.
Contains(text, sub) ==
    \E k \in 0..(Len(text) - Len(sub)) : SubSeq(text, k + 1, k + Len(sub)) = sub

Params == {"prev", "item"}
TsLine(k, p, a) == [k |-> k, param |-> p, annotated |-> a]
TsLines == {TsLine("plain", "", FALSE)} \cup {TsLine("callback", p, FALSE) : p \in Params}

TsError(f, l, c, p) == [file |-> f, line |-> l, code |-> c, param |-> p]
TsErrors ==
    {TsError(f, l, "TS7006", p) :
        f \in {APP_TSX} \cup OtherPaths, l \in 1..(MaxTsLines + 1), p \in Params}
      \cup {TsError(APP_TSX, 1, "TS2304", "")}

\* The five patterns all need "(param =>" in the line; re.sub rewrites it
\* to "((param: any) => // auto: implicit any", which none of them matches.
FixLine(line, param_name) ==
    IF line.k = "callback" /\ line.param = param_name /\ ~line.annotated
    THEN TsLine("callback", param_name, TRUE)
    ELSE line

\* errors_for_file: (line_num, param_name) of the lines of the list that
\* hold the name of the file and match the TS7006 message.
errors_for_file(file_path, errors_list) ==
    SelectSeq(errors_list,
        LAMBDA e : Contains(e.file, PathName(file_path)) /\ e.code = "TS7006")

\* errors_for_file.sort(reverse=True): the place of a pair.
PairLess(x, y) ==
    \/ x.line < y.line
    \/ x.line = y.line /\ LexLess(x.param, y.param)

SortedPairs(pairs) ==
    LET place == [i \in DOMAIN pairs |->
                    1 + Cardinality({j \in DOMAIN pairs :
                            \/ PairLess(pairs[i], pairs[j])
                            \/ ~PairLess(pairs[j], pairs[i]) /\ j < i})]
    IN  [p \in DOMAIN pairs |-> pairs[CHOOSE i \in DOMAIN pairs : place[i] = p]]

\* The loop over the sorted pairs on st = [lines, changes_made].
RECURSIVE FixPairs(_, _)
FixPairs(pairs, st) ==
    IF pairs = <<>> THEN st
    ELSE LET e == Head(pairs)
         IN  IF e.line <= Len(st.lines) /\ FixLine(st.lines[e.line], e.param) # st.lines[e.line]
             THEN FixPairs(Tail(pairs),
                     [lines |-> [st.lines EXCEPT ![e.line] = FixLine(st.lines[e.line], e.param)],
                      changes_made |-> st.changes_made + 1])
             ELSE FixPairs(Tail(pairs), st)

\* The variant that takes the pairs of the diagnostics of the file alone.
fix_ts7006_errors_of_the_file(file_path, lines, errors_list) ==
    FixPairs(SortedPairs(SelectSeq(errors_list,
                LAMBDA e : e.file = file_path /\ e.code = "TS7006")),
             [lines |-> lines, changes_made |-> 0])

fix_ts7006_errors(file_path, lines, errors_list) ==
    FixPairs(SortedPairs(errors_for_file(file_path, errors_list)),
             [lines |-> lines, changes_made |-> 0])

T7Init ==
    /\ RwIdle /\ HooksIdle /\ ConflictsIdle /\ ClassifyIdle /\ ParseIdle /\ BatchIdle /\ WriteIdle /\ LedgerIdle /\ ReportIdle /\ TopIdle /\ TryCatchIdle
    /\ t7Lines \in SeqsUpTo(TsLines, MaxTsLines)
    /\ t7Errors \in SeqsUpTo(TsErrors, MaxTsErrors)
    /\ t7Disk = t7Lines
    /\ changes_made = 0
    /\ t7Done = FALSE

\* main for a tree in which src/App.tsx exists: the lines of the report
\* that hold 'TS7006' are kept, and the file is processed when one of them
\* starts with its path.
RunFixTs7006 ==
    /\ ~t7Done
    /\ t7Done' = TRUE
    /\ LET ts7006_errors == SelectSeq(t7Errors, LAMBDA e : e.code = "TS7006")
       IN  IF \E i \in DOMAIN ts7006_errors : ts7006_errors[i].file = APP_TSX
           THEN \E st \in {fix_ts7006_errors(APP_TSX, t7Disk, ts7006_errors)} :
                    /\ t7Disk' = st.lines
                    /\ changes_made' = st.changes_made
           ELSE UNCHANGED <<t7Disk, changes_made>>
    /\ UNCHANGED <<tcVars, txVars, rpVars, lgVars, psVars, wrVars, bfVars, rwVars, hkVars, cfVars, clVars, t7Lines, t7Errors>>

T7Next == RunFixTs7006

SpecTs7006 == T7Init /\ [][T7Next]_vars

\* The TS7006 diagnostics of the report whose file is src/App.tsx.
OwnErrors == {i \in DOMAIN t7Errors : t7Errors[i].file = APP_TSX /\ t7Errors[i].code = "TS7006"}

\* C29: fix_ts7006_errors edits a line of the file only on account of a
\* TS7006 diagnostic whose file is that file: every line it changed is the
\* line of such a diagnostic naming the parameter of that line, and it
\* counts no more fixes than there are such diagnostics; a diagnostic of a
\* file whose path merely holds the base name of this file causes neither.
C29_OnlyOwnDiagnosticsEdit ==
    t7Done =>
        /\ \A k \in DOMAIN t7Disk :
              t7Disk[k] # t7Lines[k]
                  => \E i \in OwnErrors :
                        t7Errors[i].line = k /\ t7Errors[i].param = t7Lines[k].param
        /\ changes_made <= Cardinality(OwnErrors)

(***************************************************************************)
(* fix-useless-trycatch.py on the text of a file.  The file is a sequence  *)
(* of try statements and plain lines; its content is the sequence of       *)
(* their parts: for a try statement the line "try {", the body and the     *)
(* catch block.  The catch block is one of                                 *)
(*   simple    catch (e) { throw e; }                                      *)
(*   console   catch (e) { console.error(e); throw e; }                    *)
(*   mismatch  catch (_error) { console.error(error); throw error; }       *)
(*   handle    catch (e) { handle(e); }                                    *)
(* Offsets are counted in parts.                                           *)
(***************************************************************************)
MaxTryBlocks == 3

CatchKinds == {"simple", "console", "mismatch", "handle"}

Part(p, i, k) == [part |-> p, of |-> i, kind |-> k]

RECURSIVE PartsFrom(_, _)
PartsFrom(blocks, i) ==
    IF i > Len(blocks) THEN <<>>
    ELSE (IF blocks[i] = "plain" THEN <<Part("plain", i, "plain")>>
          ELSE <<Part("try", i, blocks[i]), Part("body", i, blocks[i]),
                 Part("catch", i, blocks[i])>>)
         \o PartsFrom(blocks, i + 1)

\* finditer of a pattern whose catch part matches the catch blocks of the
\* kinds K, from offset pos on.  The pattern is compiled with DOTALL and its
\* body group is (.*?): a match starts at the first "try {" from which such
\* a catch block can be reached and ends with the first such catch block,
\* whatever lies between.
RECURSIVE FindIter(_, _, _)
FindIter(K, text, pos) ==
    LET ends == {e \in pos..Len(text) : text[e].part = "catch" /\ text[e].kind \in K}
        starts == {s \in pos..Len(text) : text[s].part = "try" /\ \E e \in ends : e > s}
    IN  IF starts = {} THEN <<>>
        ELSE LET s == Min(starts)
                 e == Min({x \in ends : x > s})
             IN  <<[start |-> s, end |-> e, try_body |-> SubSeq(text, s + 1, e - 1)]>>
                    \o FindIter(K, text, e + 1)

\* already_found: a pattern with the same start is in the list.
NotFoundYet(patterns, matches) ==
    SelectSeq(matches, LAMBDA m : \A i \in DOMAIN patterns : patterns[i].start # m.start)

\* sorted(patterns, key=lambda p: p['start'], reverse=True)
SortedByStart(patterns) ==
    LET place == [i \in DOMAIN patterns |->
                    1 + Cardinality({j \in DOMAIN patterns :
                            \/ patterns[j].start > patterns[i].start
                            \/ patterns[j].start = patterns[i].start /\ j < i})]
    IN  [p \in DOMAIN patterns |-> patterns[CHOOSE i \in DOMAIN patterns : place[i] = p]]

\* The list without the test of the second and third pattern against the
\* patterns found before.
detect_useless_patterns_unfiltered(text) ==
    SortedByStart(FindIter({"console"}, text, 1) \o FindIter({"simple"}, text, 1)
                    \o FindIter({"mismatch"}, text, 1))

detect_useless_patterns(text) ==
    LET first == FindIter({"console"}, text, 1)
        second == first \o NotFoundYet(first, FindIter({"simple"}, text, 1))
        third == second \o NotFoundYet(second, FindIter({"mismatch"}, text, 1))
    IN  SortedByStart(third)

\* fix_pattern: the text from start to end is replaced by the lines of the
\* body, with the offsets the pattern was found at.
fix_pattern(text, pattern) ==
    SubSeq(text, 1, pattern.start - 1) \o pattern.try_body
        \o SubSeq(text, pattern.end + 1, Len(text))

\* The loop of process_file over the patterns on st = [content, fixed].
RECURSIVE FixPatterns(_, _)
FixPatterns(patterns, st) ==
    IF patterns = <<>> THEN st
    ELSE LET new_content == fix_pattern(st.content, Head(patterns))
         IN  IF new_content # st.content
             THEN FixPatterns(Tail(patterns), [content |-> new_content, fixed |-> st.fixed + 1])
             ELSE FixPatterns(Tail(patterns), st)

TcInit ==
    /\ RwIdle /\ HooksIdle /\ ConflictsIdle /\ ClassifyIdle /\ ParseIdle /\ BatchIdle /\ WriteIdle /\ LedgerIdle /\ ReportIdle /\ TopIdle /\ Ts7006Idle
    /\ \E blocks \in SeqsUpTo(CatchKinds \cup {"plain"}, MaxTryBlocks) :
            tcContent = PartsFrom(blocks, 1)
    /\ tcDisk = tcContent
    /\ tcPatterns = <<>>
    /\ tcCleaner = [patterns_found |-> 0, patterns_fixed |-> 0]
    /\ tcDone = FALSE

\* UselessTryCatchCleaner.process_file on a file that is read and written
\* without an exception.
TcProcessFile ==
    /\ ~tcDone
    /\ tcDone' = TRUE
    /\ \E patterns \in {detect_useless_patterns(tcDisk)} :
         \E st \in {FixPatterns(patterns, [content |-> tcDisk, fixed |-> 0])} :
            /\ tcPatterns' = patterns
            /\ tcDisk' = st.content
            /\ tcCleaner' = [patterns_found |-> tcCleaner.patterns_found + Len(patterns),
                             patterns_fixed |-> tcCleaner.patterns_fixed + st.fixed]
    /\ UNCHANGED <<t7Vars, txVars, rpVars, lgVars, psVars, wrVars, bfVars, rwVars, hkVars, cfVars, clVars, tcContent>>

TcNext == TcProcessFile

SpecTryCatch == TcInit /\ [][TcNext]_vars

\* The content with the "try {" and the catch block of every pattern
\* taken out: each matched text replaced by its body.
EveryMatchReplaced ==
    LET kept == {i \in DOMAIN tcContent :
                    \A p \in DOMAIN tcPatterns :
                        i # tcPatterns[p].start /\ i # tcPatterns[p].end}
        Nth(n) == CHOOSE i \in kept : Cardinality({j \in kept : j < i}) = n - 1
    IN  [n \in 1..Cardinality(kept) |-> tcContent[Nth(n)]]

\* C30: the spans detect_useless_patterns returns are pairwise disjoint,
\* so that the splices of process_file replace exactly the matched texts,
\* and patterns_fixed never exceeds patterns_found.
C30_SpansAreDisjoint ==
    tcDone =>
        /\ \A p, q \in DOMAIN tcPatterns :
              p # q => \/ tcPatterns[p].end < tcPatterns[q].start
                       \/ tcPatterns[q].end < tcPatterns[p].start
        /\ tcDisk = EveryMatchReplaced
        /\ tcCleaner.patterns_fixed <= tcCleaner.patterns_found
====
